---- MODULE Spec2Model ----
(***************************************************************************)
(* Model of the classification-and-recommendation core of the Regression   *)
(* Auto-Remediation system: the Solution knowledge base, the feedback      *)
(* recorder, the lazily refitted text vectorizer and the recommender       *)
(* (src/src/models/solution_recommender.py), and the issue classifier      *)
(* (src/src/models/issue_classifier.py).                                   *)
(*                                                                         *)
(* Python floats are modelled as exact rationals <<numerator, denominator>>*)
(* in lowest terms.  Every comparison the properties below make is between *)
(* values produced by the same monotone formula, so rounding does not      *)
(* change its outcome.  Time is counted in whole days.                     *)
(***************************************************************************)
EXTENDS Integers, Sequences, FiniteSets, TLC

VARIABLES
    solutions,          \* self.solutions: dict id -> Solution, in insertion order
    solution_history,   \* self.solution_history: list of history entries
    is_fitted,          \* self.is_fitted
    vectorizer,         \* self.vectorizer: the corpus it was last fitted on
    classifier,         \* the IssueClassifier: is_trained, class_names, models
    threads,            \* the recommender calls in progress in two threads
    now,                \* datetime.now(), in days
    last                \* the last operation called and what it returned

kbVars == <<solutions, solution_history, is_fitted, vectorizer>>
vars == <<solutions, solution_history, is_fitted, vectorizer, classifier,
          threads, now, last>>

(***************************************************************************)
(* Bounds of the model.                                                    *)
(***************************************************************************)
\* number of record_solution_application calls in a run; one is made per
\* day, so this is also the last day the clock reaches
MaxRecorded == 2

None == "None"

\* an Optional[datetime]: <<>> is None, <<t>> is the time t
NoTime == <<>>
At(t) == <<t>>

(***************************************************************************)
(* Rationals.                                                              *)
(***************************************************************************)
RECURSIVE Gcd(_, _)
Gcd(a, b) == IF b = 0 THEN a ELSE Gcd(b, a % b)

Abs(x) == IF x < 0 THEN -x ELSE x

\* n / d in lowest terms, d > 0
Rat(n, d) ==
    LET g == Gcd(Abs(n), d)
    IN  IF n = 0 THEN <<0, 1>> ELSE <<n \div g, d \div g>>

Zero == Rat(0, 1)
One == Rat(1, 1)

\* arithmetic and order; the terms are brought to the least common
\* denominator, and products are reduced crosswise, to keep the integers small
Lcm(x, y) == (x \div Gcd(x, y)) * y

RAdd(a, b) ==
    LET d == Lcm(a[2], b[2])
    IN  Rat(a[1] * (d \div a[2]) + b[1] * (d \div b[2]), d)
RSub(a, b) ==
    LET d == Lcm(a[2], b[2])
    IN  Rat(a[1] * (d \div a[2]) - b[1] * (d \div b[2]), d)
RMul(a, b) ==
    LET x == Rat(a[1], b[2])
        y == Rat(b[1], a[2])
    IN  Rat(x[1] * y[1], x[2] * y[2])
RLeq(a, b) ==
    LET d == Lcm(a[2], b[2])
    IN  a[1] * (d \div a[2]) <= b[1] * (d \div b[2])
RLt(a, b) == ~RLeq(b, a)
RMin(a, b) == IF RLeq(a, b) THEN a ELSE b
RMax(a, b) == IF RLeq(a, b) THEN b ELSE a

(***************************************************************************)
(* Solution (dataclass) and its two methods.                               *)
(***************************************************************************)
\* Solution.get_success_rate
GetSuccessRate(s) ==
    LET total == s.success_count + s.failure_count
    IN  IF total > 0 THEN Rat(s.success_count, total) ELSE Zero

\* update_success_metrics counting every outcome as a success as well
UpdateSuccessMetricsCountsTwice(s, success, t) ==
    LET counted == [s EXCEPT
            !.success_count = @ + 1,
            !.failure_count = IF success THEN @ ELSE @ + 1,
            !.last_applied = At(t)]
        application_count == counted.success_count + counted.failure_count
    IN  [counted EXCEPT !.confidence_score =
            RAdd(RMul(Rat(7, 10), GetSuccessRate(counted)),
                 RMul(Rat(3, 10), RMin(One, Rat(application_count, 10))))]

\* Solution.update_success_metrics(success), called at time t
UpdateSuccessMetrics(s, success, t) ==
    LET counted == [s EXCEPT
            !.success_count = IF success THEN @ + 1 ELSE @,
            !.failure_count = IF success THEN @ ELSE @ + 1,
            !.last_applied = At(t)]
        success_rate == GetSuccessRate(counted)
        application_count == counted.success_count + counted.failure_count
        confidence_from_success == success_rate
        confidence_from_volume == RMin(One, Rat(application_count, 10))
    IN  [counted EXCEPT !.confidence_score =
            RAdd(RMul(Rat(7, 10), confidence_from_success),
                 RMul(Rat(3, 10), confidence_from_volume))]

(***************************************************************************)
(* The knowledge base: a dict keyed by solution_id.  A Python dict keeps   *)
(* insertion order and assigning to a present key keeps the key's place,   *)
(* so the dict is a sequence of Solutions with distinct ids.               *)
(***************************************************************************)
Range(seq) == {seq[i] : i \in DOMAIN seq}

Keys(sols) == {sols[i].solution_id : i \in DOMAIN sols}

IndexOf(sols, id) == CHOOSE i \in DOMAIN sols : sols[i].solution_id = id

\* self.solutions[id]
Lookup(sols, id) == sols[IndexOf(sols, id)]

\* self.solutions[sol.solution_id] = sol
DictSet(sols, sol) ==
    IF sol.solution_id \in Keys(sols)
    THEN [sols EXCEPT ![IndexOf(sols, sol.solution_id)] = sol]
    ELSE Append(sols, sol)

(***************************************************************************)
(* Texts.  TfidfVectorizer(stop_words='english', ngram_range=(1, 2)) turns *)
(* a text into its unigram and bigram features left after stop-word        *)
(* removal.  The texts of the model and their features are listed here.    *)
(* Term weights (tf, idf) are not modelled: every feature weighs one.      *)
(***************************************************************************)
FeaturesOf(text) ==
    CASE text = "contact failure" ->
            {"contact", "failure", "contact failure"}
      [] text = "contact resistance" ->
            {"contact", "resistance", "contact resistance"}
      [] text = "timeout" -> {"timeout"}
      [] text = "device timeout" -> {"device", "timeout", "device timeout"}
      [] text = "the" -> {}
      [] OTHER -> {}

\* the vectorizer before its first fit
NotFitted == [has_vocabulary |-> FALSE, fitted_on |-> <<>>]

RECURSIVE UnionOfFeatures(_)
UnionOfFeatures(texts) ==
    IF texts = <<>> THEN {}
    ELSE FeaturesOf(Head(texts)) \cup UnionOfFeatures(Tail(texts))

\* vectorizer.vocabulary_
Vocabulary(vec) == UnionOfFeatures(vec.fitted_on)

\* vectorizer.fit(texts): raises ValueError (empty vocabulary) when no text
\* holds anything but stop words, and then keeps its previous state
VectorizerFit(vec, texts) ==
    IF UnionOfFeatures(texts) = {}
    THEN [raised |-> TRUE, vectorizer |-> vec]
    ELSE [raised |-> FALSE,
          vectorizer |-> [has_vocabulary |-> TRUE, fitted_on |-> texts]]

\* the texts _fit_vectorizer collects: descriptions, then history messages
CorpusTexts(sols, history) ==
    [i \in 1..Len(sols) |-> sols[i].description]
        \o [i \in 1..Len(history) |-> history[i].error_message]

\* SolutionRecommender._fit_vectorizer
FitVectorizer(sols, history, vec, fitted) ==
    IF sols = <<>>
    THEN [raised |-> FALSE, vectorizer |-> vec, is_fitted |-> fitted]
    ELSE LET texts == CorpusTexts(sols, history)
             fit == VectorizerFit(vec, texts)
         IN  IF fit.raised
             THEN [raised |-> TRUE, vectorizer |-> vec, is_fitted |-> fitted]
             ELSE [raised |-> FALSE, vectorizer |-> fit.vectorizer,
                   is_fitted |-> TRUE]

\* LazyFit refitting on every call
LazyFitEveryCall(sols, history, vec, fitted) ==
    IF sols # <<>>
    THEN FitVectorizer(sols, history, vec, fitted)
    ELSE [raised |-> FALSE, vectorizer |-> vec, is_fitted |-> fitted]

\* recommend_solutions' "if not self.is_fitted: self._fit_vectorizer()",
\* reached when the knowledge base is not empty
LazyFit(sols, history, vec, fitted) ==
    IF sols # <<>> /\ ~fitted
    THEN FitVectorizer(sols, history, vec, fitted)
    ELSE [raised |-> FALSE, vectorizer |-> vec, is_fitted |-> fitted]

\* largest r with r * r <= n
ISqrt(n) == CHOOSE r \in 0..n : r * r <= n /\ (r + 1) * (r + 1) > n

\* cosine_similarity(transform([a]), transform([b]))[0][0]: the dot product
\* over the product of the norms, sqrt(nn); an irrational root is rounded
\* down to two decimals
CosineSimilarity(vec, a, b) ==
    LET va == FeaturesOf(a) \cap Vocabulary(vec)
        vb == FeaturesOf(b) \cap Vocabulary(vec)
        dot == Cardinality(va \cap vb)
        nn == Cardinality(va) * Cardinality(vb)
        root == ISqrt(nn)
    IN  IF nn = 0 THEN Zero
        ELSE IF root * root = nn THEN Rat(dot, root)
        ELSE Rat(dot * ISqrt(nn * 10000), 100 * nn)

(***************************************************************************)
(* Recommendation.  A context is None or a dict; the model keeps the two   *)
(* keys the recommender reads, Absent standing for a key the dict lacks.   *)
(* None and the empty dict are both falsy and the code tells them apart    *)
(* nowhere: NoContext stands for both.                                     *)
(***************************************************************************)
Absent == "Absent"

NoContext == [module_name |-> Absent, baseline_version |-> Absent]

\* context and key in context
HasKey(context, key) == context # NoContext /\ context[key] # Absent

\* IsCandidate without the category test
IsCandidateAnyCategory(solution, issue_category, context) ==
    /\ ~(/\ HasKey(context, "module_name")
         /\ solution.module_applicability # {}
         /\ context.module_name \notin solution.module_applicability)
    /\ ~(/\ HasKey(context, "baseline_version")
         /\ solution.baseline_versions # {}
         /\ context.baseline_version \notin solution.baseline_versions)

\* IsCandidate taking an empty baseline allow-list for one that allows
\* nothing
IsCandidateEmptyListExcludes(solution, issue_category, context) ==
    /\ ~(solution.category # None /\ solution.category # issue_category)
    /\ ~(/\ HasKey(context, "module_name")
         /\ solution.module_applicability # {}
         /\ context.module_name \notin solution.module_applicability)
    /\ ~(/\ HasKey(context, "baseline_version")
         /\ context.baseline_version \notin solution.baseline_versions)

\* SolutionRecommender._get_candidate_solutions, one Solution's test
IsCandidate(solution, issue_category, context) ==
    /\ ~(solution.category # None /\ solution.category # issue_category)
    /\ ~(/\ HasKey(context, "module_name")
         /\ solution.module_applicability # {}
         /\ context.module_name \notin solution.module_applicability)
    /\ ~(/\ HasKey(context, "baseline_version")
         /\ solution.baseline_versions # {}
         /\ context.baseline_version \notin solution.baseline_versions)

\* SolutionRecommender._get_candidate_solutions
GetCandidateSolutions(sols, issue_category, context) ==
    SelectSeq(sols, LAMBDA solution :
        IsCandidate(solution, issue_category, context))

\* SimilarityScore deciding on the flag as it was before the lazy refit
SimilarityScoreBeforeFit(vec, fitted, error_message, solution) ==
    IF ~is_fitted THEN Rat(1, 2)
    ELSE LET similarity ==
                 CosineSimilarity(vec, error_message, solution.description)
             historical_boost ==
                 RMin(Rat(2, 10), RMul(GetSuccessRate(solution), Rat(2, 10)))
         IN  IF solution.success_count > 0
             THEN RAdd(similarity, historical_boost)
             ELSE similarity

\* SolutionRecommender._calculate_similarity_scores, one candidate
SimilarityScore(vec, fitted, error_message, solution) ==
    IF ~fitted THEN Rat(1, 2)
    ELSE LET similarity ==
                 CosineSimilarity(vec, error_message, solution.description)
             historical_boost ==
                 RMin(Rat(2, 10), RMul(GetSuccessRate(solution), Rat(2, 10)))
         IN  IF solution.success_count > 0
             THEN RAdd(similarity, historical_boost)
             ELSE similarity

\* FinalScore with the penalty applied whatever the number of applications
FinalScorePenaltyAlways(solution, base_score, t) ==
    LET scaled == RMul(base_score,
                       RAdd(Rat(1, 2), RMul(Rat(1, 2), solution.confidence_score)))
        days_since_applied == t - solution.last_applied[1]
        recency_boost ==
            RMax(Zero, RMul(Rat(1, 10), Rat(30 - days_since_applied, 30)))
        boosted ==
            IF solution.last_applied # NoTime /\ solution.success_count > 0
            THEN RAdd(scaled, recency_boost)
            ELSE scaled
        success_rate == GetSuccessRate(solution)
    IN  IF RLt(success_rate, Rat(1, 2)) THEN RMul(boosted, Rat(7, 10))
        ELSE IF RLt(success_rate, Rat(7, 10)) THEN RMul(boosted, Rat(9, 10))
        ELSE boosted

\* SolutionRecommender._apply_scoring_factors, one candidate, at time t
FinalScore(solution, base_score, t) ==
    LET scaled == RMul(base_score,
                       RAdd(Rat(1, 2), RMul(Rat(1, 2), solution.confidence_score)))
        days_since_applied == t - solution.last_applied[1]
        recency_boost ==
            RMax(Zero, RMul(Rat(1, 10), Rat(30 - days_since_applied, 30)))
        boosted ==
            IF solution.last_applied # NoTime /\ solution.success_count > 0
            THEN RAdd(scaled, recency_boost)
            ELSE scaled
        success_rate == GetSuccessRate(solution)
    IN  IF solution.success_count + solution.failure_count >= 3
        THEN IF RLt(success_rate, Rat(1, 2)) THEN RMul(boosted, Rat(7, 10))
             ELSE IF RLt(success_rate, Rat(7, 10)) THEN RMul(boosted, Rat(9, 10))
             ELSE boosted
        ELSE boosted

\* the (solution, score) pairs before sorting, in candidate order
ScoredCandidates(vec, fitted, error_message, candidates, t) ==
    [i \in 1..Len(candidates) |->
        [solution_id |-> candidates[i].solution_id,
         score |-> FinalScore(candidates[i],
                       SimilarityScore(vec, fitted, error_message, candidates[i]),
                       t)]]

\* InsertByScore putting x before the elements of equal score
RECURSIVE InsertBeforeEqual(_, _)
InsertBeforeEqual(sorted, x) ==
    IF sorted = <<>> THEN <<x>>
    ELSE IF RLeq(Head(sorted).score, x.score) THEN <<x>> \o sorted
    ELSE <<Head(sorted)>> \o InsertBeforeEqual(Tail(sorted), x)

\* insert x after every element whose score is not smaller: keeps list.sort
\* (key=score, reverse=True) stable
RECURSIVE InsertByScore(_, _)
InsertByScore(sorted, x) ==
    IF sorted = <<>> THEN <<x>>
    ELSE IF RLt(Head(sorted).score, x.score) THEN <<x>> \o sorted
    ELSE <<Head(sorted)>> \o InsertByScore(Tail(sorted), x)

\* final_scores.sort(key=lambda x: x[1], reverse=True)
RECURSIVE SortByScore(_)
SortByScore(pairs) ==
    IF pairs = <<>> THEN <<>>
    ELSE InsertByScore(SortByScore(SubSeq(pairs, 1, Len(pairs) - 1)),
                       pairs[Len(pairs)])

\* final_scores[:max_recommendations], max_recommendations >= 0
Truncate(pairs, max_recommendations) ==
    SubSeq(pairs, 1, IF max_recommendations < Len(pairs)
                     THEN max_recommendations ELSE Len(pairs))

\* RecommendationConfidence without the cap on the top score
RecommendationConfidenceUncapped(top_solutions) ==
    IF top_solutions = <<>> THEN Zero
    ELSE LET top_score == top_solutions[1].score
             with_gap ==
                 IF Len(top_solutions) > 1
                 THEN RAdd(top_score,
                           RMin(Rat(2, 10),
                                RSub(top_solutions[1].score, top_solutions[2].score)))
                 ELSE top_score
             availability_factor ==
                 RMax(Rat(8, 10),
                      RSub(One, RMul(Rat(Len(top_solutions), 1), Rat(5, 100))))
         IN  RMin(One, RMul(with_gap, availability_factor))

\* SolutionRecommender._calculate_recommendation_confidence
RecommendationConfidence(top_solutions) ==
    IF top_solutions = <<>> THEN Zero
    ELSE LET top_score == top_solutions[1].score
             base_confidence == RMin(One, top_score)
             with_gap ==
                 IF Len(top_solutions) > 1
                 THEN RAdd(base_confidence,
                           RMin(Rat(2, 10),
                                RSub(top_solutions[1].score, top_solutions[2].score)))
                 ELSE base_confidence
             availability_factor ==
                 RMax(Rat(8, 10),
                      RSub(One, RMul(Rat(Len(top_solutions), 1), Rat(5, 100))))
         IN  RMin(One, RMul(with_gap, availability_factor))

\* the RecommendationResult of recommend_solutions, given the vectorizer
\* state left by the lazy refit
RecommendationResult(sols, vec, fitted, error_message, issue_category, context, max_recommendations, t) ==
    LET candidates == GetCandidateSolutions(sols, issue_category, context)
        top_solutions ==
            Truncate(SortByScore(ScoredCandidates(vec, fitted, error_message,
                                                  candidates, t)),
                     max_recommendations)
    IN  IF sols = <<>>
        THEN [solutions |-> <<>>,
              recommendation_confidence |-> Zero,
              explanation |-> "No solutions available in knowledge base",
              total_solutions_considered |-> 0]
        ELSE IF candidates = <<>>
        THEN [solutions |-> <<>>,
              recommendation_confidence |-> Rat(1, 10),
              explanation |-> "No solutions found for category",
              total_solutions_considered |-> Len(sols)]
        ELSE [solutions |-> top_solutions,
              recommendation_confidence |->
                  RecommendationConfidence(top_solutions),
              explanation |-> "Found potential solutions",
              total_solutions_considered |-> Len(candidates)]

(***************************************************************************)
(* The IssueClassifier.  A message is one of the texts listed below; what  *)
(* str.strip, str.lower and the substring test give for them is tabled.    *)
(***************************************************************************)
\* error_message.strip()
Strip(text) == IF text = "  " THEN "" ELSE text

\* error_message.lower()
Lower(text) ==
    CASE text = "Device Timeout" -> "device timeout"
      [] text = "CONTACT RESISTANCE" -> "contact resistance"
      [] text = "Contact failure detected on pin 5" ->
            "contact failure detected on pin 5"
      [] text = "Contact failure: out of memory" ->
            "contact failure: out of memory"
      [] OTHER -> text

\* the keywords of keyword_patterns that are substrings of the text
KeywordsIn(text) ==
    CASE text = "device timeout" -> {"timeout", "device timeout"}
      [] text = "contact resistance" -> {"contact resistance"}
      [] text = "timeout" -> {"timeout"}
      [] text = "calibration timeout, cal error" ->
            {"timeout", "calibration timeout", "cal error"}
      [] text = "contact failure detected on pin 5" -> {"contact failure"}
      [] text = "contact failure: out of memory" ->
            {"contact failure", "out of memory"}
      [] text = "timeout: connection timeout, test timeout" ->
            {"timeout", "test timeout", "connection timeout"}
      [] OTHER -> {}

\* the values of IssueCategory in the order the enum declares them
IssueCategoryOrder ==
    <<"compilation_error", "syntax_error", "linking_error", "build_failure",
      "timeout", "resource_error", "runtime_error", "initialization_error",
      "contact_failure", "measurement_error", "calibration_error",
      "device_error", "config_error", "parameter_error", "environment_error",
      "file_error", "data_corruption", "permission_error", "unknown",
      "other">>

\* IssueClassifier._build_keyword_patterns, in the dict's order
KeywordPatterns ==
    << [category |-> "compilation_error",
        keywords |-> <<"compilation error", "compile error",
                       "compilation failed", "compiler error", "build error",
                       "make error">>],
       [category |-> "syntax_error",
        keywords |-> <<"syntax error", "parse error", "unexpected token",
                       "missing semicolon", "undeclared identifier">>],
       [category |-> "linking_error",
        keywords |-> <<"link error", "linking failed", "undefined reference",
                       "cannot find symbol", "linker error">>],
       [category |-> "timeout",
        keywords |-> <<"timeout", "time out", "timed out",
                       "execution timeout", "test timeout",
                       "connection timeout">>],
       [category |-> "contact_failure",
        keywords |-> <<"contact failure", "contact error", "pin contact",
                       "contact resistance", "open contact",
                       "short contact">>],
       [category |-> "measurement_error",
        keywords |-> <<"measurement error", "measurement failed",
                       "invalid measurement", "measurement timeout",
                       "measurement overflow">>],
       [category |-> "calibration_error",
        keywords |-> <<"calibration error", "calibration failed",
                       "cal error", "calibration timeout",
                       "calibration drift">>],
       [category |-> "device_error",
        keywords |-> <<"device error", "device not found", "device failure",
                       "device timeout", "device communication error">>],
       [category |-> "resource_error",
        keywords |-> <<"resource error", "out of memory", "memory error",
                       "disk space", "resource not available">>],
       [category |-> "file_error",
        keywords |-> <<"file not found", "file error", "cannot open file",
                       "file permission", "file corrupted">>],
       [category |-> "permission_error",
        keywords |-> <<"permission denied", "access denied",
                       "insufficient privileges", "permission error",
                       "authorization failed">>] >>

\* category_scores filled in the opposite order
CategoryScoresReversed(message_lower) ==
    LET matches(p) == SelectSeq(p.keywords,
                                LAMBDA k : k \in KeywordsIn(message_lower))
        n == Len(KeywordPatterns)
        scored == [i \in DOMAIN KeywordPatterns |->
                      [category |-> KeywordPatterns[n + 1 - i].category,
                       score |-> Len(matches(KeywordPatterns[n + 1 - i])),
                       matches |-> matches(KeywordPatterns[n + 1 - i])]]
    IN  SelectSeq(scored, LAMBDA c : c.score > 0)

\* category_scores with each category's category_matches, in insertion order
CategoryScores(message_lower) ==
    LET matches(p) == SelectSeq(p.keywords,
                                LAMBDA k : k \in KeywordsIn(message_lower))
        scored == [i \in DOMAIN KeywordPatterns |->
                      [category |-> KeywordPatterns[i].category,
                       score |-> Len(matches(KeywordPatterns[i])),
                       matches |-> matches(KeywordPatterns[i])]]
    IN  SelectSeq(scored, LAMBDA c : c.score > 0)

\* matched_keywords
RECURSIVE MatchedKeywords(_)
MatchedKeywords(scores) ==
    IF scores = <<>> THEN <<>>
    ELSE Head(scores).matches \o MatchedKeywords(Tail(scores))

\* seq[:n]
FirstN(seq, n) == SubSeq(seq, 1, IF Len(seq) < n THEN Len(seq) ELSE n)

\* sorted(category_scores.items(), key=score, reverse=True): stable
RECURSIVE SortCategories(_)
SortCategories(scores) ==
    IF scores = <<>> THEN <<>>
    ELSE LET sorted == SortCategories(Tail(scores))
             x == Head(scores)
             ahead == SelectSeq(sorted, LAMBDA c : c.score > x.score)
             behind == SelectSeq(sorted, LAMBDA c : c.score <= x.score)
         IN  ahead \o <<x>> \o behind

\* score / 3.0 without the cap
RuleConfidenceUncapped(score) == Rat(score, 3)

\* min(0.8, score / 3.0)
RuleConfidence(score) == RMin(Rat(8, 10), Rat(score, 3))

\* IssueClassifier._rule_based_classify
RuleBasedClassify(error_message) ==
    LET scores == CategoryScores(Lower(error_message))
        sorted_categories == SortCategories(scores)
        \* max(keys, key=score): the first key with the largest score
        top == CHOOSE i \in DOMAIN scores :
                  /\ \A j \in DOMAIN scores : scores[j].score <= scores[i].score
                  /\ \A j \in 1..(i - 1) : scores[j].score < scores[i].score
    IN  IF scores = <<>>
        THEN [path |-> "rule",
              category |-> "unknown",
              confidence |-> Rat(1, 10),
              explanation |-> "No matching patterns found",
              features_used |-> <<>>,
              alternative_categories |-> <<>>]
        ELSE [path |-> "rule",
              category |-> scores[top].category,
              confidence |-> RuleConfidence(scores[top].score),
              explanation |-> "Rule-based classification found",
              features_used |-> FirstN(MatchedKeywords(scores), 5),
              alternative_categories |->
                  [i \in 1..Len(FirstN(Tail(sorted_categories), 3)) |->
                      <<sorted_categories[i + 1].category,
                        RuleConfidence(sorted_categories[i + 1].score)>>]]

\* IssueClassifier.__init__ without a model file.  vectorizer_on is the set
\* of texts the vectorizer was fitted on; classes and fitted_on are the
\* primary model's classes_ and the texts whose features it was fitted on,
\* backup_classes and backup_on the secondary model's; a model that is not
\* fitted has neither
Untrained ==
    [is_trained |-> FALSE,
     class_names |-> <<>>,
     feature_names |-> {},
     training_date |-> NoTime,
     vectorizer_on |-> {},
     classes |-> {},
     fitted_on |-> {},
     backup_classes |-> {},
     backup_on |-> {}]

\* vectorizer.get_feature_names_out() after a fit on the texts
ClassifierFeatures(texts) == UNION {FeaturesOf(Lower(text)) : text \in texts}

\* _ml_classify raises: a model that is not fitted, a model fitted on
\* another number of features than the vectorizer gives, probability
\* vectors of two lengths that numpy cannot broadcast, or an index that
\* class_names does not have
MlRaises(cls) ==
    LET n_features == Cardinality(ClassifierFeatures(cls.vectorizer_on))
        n_rf == Cardinality(cls.classes)
        n_nb == Cardinality(cls.backup_classes)
    IN  \/ cls.fitted_on = {}
        \/ cls.backup_on = {}
        \/ Cardinality(ClassifierFeatures(cls.fitted_on)) # n_features
        \/ Cardinality(ClassifierFeatures(cls.backup_on)) # n_features
        \/ n_rf # n_nb /\ n_rf # 1 /\ n_nb # 1
        \/ Len(cls.class_names) < (IF n_rf < n_nb THEN n_nb ELSE n_rf)

\* the length of ensemble_proba
ProbaLength(cls) ==
    IF Cardinality(cls.classes) < Cardinality(cls.backup_classes)
    THEN Cardinality(cls.backup_classes)
    ELSE Cardinality(cls.classes)

\* the category values in the order np.unique sorts them
LabelOrder ==
    <<"build_failure", "calibration_error", "compilation_error",
      "config_error", "contact_failure", "data_corruption", "device_error",
      "environment_error", "file_error", "initialization_error",
      "linking_error", "measurement_error", "other", "parameter_error",
      "permission_error", "resource_error", "runtime_error", "syntax_error",
      "timeout", "unknown">>

\* classifier.classes_ (and backup_classifier.classes_): the labels of
\* y_train, sorted; predict_proba's columns are in this order
ModelClasses(cls) == SelectSeq(LabelOrder, LAMBDA c : c \in cls.classes)

\* probabilities are multiples of 1 / ProbaGrain
ProbaGrain == 4

RECURSIVE SumTo(_, _)
SumTo(p, n) == IF n = 0 THEN 0 ELSE p[n] + SumTo(p, n - 1)

\* the vectors 0.7 * rf_proba + 0.3 * nb_proba can be over n classes: what
\* the two models compute is not modelled, so any distribution, given by
\* its numerators over ProbaGrain
EnsembleProbas(n) ==
    {p \in [1..n -> 0..ProbaGrain] : SumTo(p, n) = ProbaGrain}

\* np.argmax(p): the first index of the largest value
ArgMax(p) ==
    CHOOSE i \in DOMAIN p :
        /\ \A j \in DOMAIN p : p[j] <= p[i]
        /\ \A j \in 1..(i - 1) : p[j] < p[i]

\* what np.argsort(p)[::-1] can be: the indices by value, largest first;
\* the default sort kind fixes no order among equal values
SortedIndices(p) ==
    {s \in [DOMAIN p -> DOMAIN p] :
        /\ \A i, j \in DOMAIN p : s[i] = s[j] => i = j
        /\ \A i \in 1..(Len(p) - 1) : p[s[i]] >= p[s[i + 1]]}

\* IssueClassifier._ml_classify, given the fused probabilities and the
\* sorted indices: the category is class_names at the argmax index, label
\* is the class the models hold at that index; the features behind the
\* explanation are not modelled
MlClassify(cls, ensemble_proba, sorted_indices) ==
    LET top_idx == ArgMax(ensemble_proba)
        rest == FirstN(Tail(sorted_indices), 3)
    IN  [path |-> "ml",
         category |-> cls.class_names[top_idx],
         top_idx |-> top_idx,
         label |-> ModelClasses(cls)[top_idx],
         confidence |-> Rat(ensemble_proba[top_idx], ProbaGrain),
         explanation |-> "ML model classified",
         ensemble_proba |-> ensemble_proba,
         alternative_categories |->
             [i \in 1..Len(rest) |->
                 <<cls.class_names[rest[i]],
                   Rat(ensemble_proba[rest[i]], ProbaGrain)>>]]

\* math.ceil(0.2 * n), the size of train_test_split's test part
NTest(n) == (n + 4) \div 5

Labels(training_data) == {training_data[i][2] : i \in DOMAIN training_data}

CountOf(training_data, label) ==
    Cardinality({i \in DOMAIN training_data : training_data[i][2] = label})

\* train_test_split(..., stratify=labels) raises ValueError when a class has
\* one member or the test part is smaller than the number of classes
Stratifiable(training_data) ==
    /\ \A label \in Labels(training_data) :
          CountOf(training_data, label) >= 2
    /\ NTest(Len(training_data)) >= Cardinality(Labels(training_data))

\* the subsets of S that have k members
RECURSIVE KSubsets(_, _)
KSubsets(S, k) ==
    IF k = 0 THEN {{}}
    ELSE UNION {{T \cup {x} : T \in KSubsets({y \in S : y > x}, k - 1)} :
                    x \in S}

\* the index sets train_test_split can pick as the test part: the shuffle is
\* not modelled, so any set of the right size, and under stratification any
\* that takes each class in proportion
TestParts(training_data) ==
    LET n == Len(training_data)
        sized == KSubsets(1..n, NTest(n))
    IN  IF Stratifiable(training_data)
        THEN {T \in sized :
                \A label \in Labels(training_data) :
                    Cardinality({i \in T : training_data[i][2] = label}) * n
                        = CountOf(training_data, label) * NTest(n)}
        ELSE sized

\* list(set(labels)): the labels in an order the set's hashing decides
Orderings(S) ==
    {f \in [1..Cardinality(S) -> S] : \A i, j \in DOMAIN f : f[i] = f[j] => i = j}

\* what train_test_split returns for the test part test_part: the texts and
\* the labels of the training part, and the size of the test part
Split(training_data, test_part) ==
    [X_train |-> {training_data[i][1] : i \in (DOMAIN training_data) \ test_part},
     y_train |-> {training_data[i][2] : i \in (DOMAIN training_data) \ test_part},
     n_test |-> Cardinality(test_part)]

\* the splits train_test_split can return
Splits(training_data) ==
    {Split(training_data, test_part) : test_part \in TestParts(training_data)}

\* the classifier train_model leaves when it returns
Trained(split, class_names, t) ==
    [is_trained |-> TRUE,
     class_names |-> class_names,
     feature_names |-> ClassifierFeatures(split.X_train),
     training_date |-> At(t),
     vectorizer_on |-> split.X_train,
     classes |-> split.y_train,
     fitted_on |-> split.X_train,
     backup_classes |-> split.y_train,
     backup_on |-> split.X_train]

\* the classifier train_model leaves when the fit of a model raises: the
\* vectorizer has been fitted in place, and so has the primary model when
\* it is the secondary one that raises; the model whose fit raised is as
\* before or, when kept is false, not fitted
FitInterrupted(cls, split, fit_error, kept) ==
    IF fit_error = "classifier"
    THEN [cls EXCEPT !.vectorizer_on = split.X_train,
                     !.classes = IF kept THEN @ ELSE {},
                     !.fitted_on = IF kept THEN @ ELSE {}]
    ELSE [cls EXCEPT !.vectorizer_on = split.X_train,
                     !.classes = split.y_train,
                     !.fitted_on = split.X_train,
                     !.backup_classes = IF kept THEN @ ELSE {},
                     !.backup_on = IF kept THEN @ ELSE {}]

\* the metrics train_model returns, those the split and the fit determine;
\* the accuracies and the classification report depend on the models'
\* predictions and are left out
TrainingResults(training_data, split, class_names) ==
    [training_examples |-> Len(training_data),
     validation_examples |-> split.n_test,
     feature_count |-> Cardinality(ClassifierFeatures(split.X_train)),
     class_count |-> Len(class_names)]

(***************************************************************************)
(* Inputs of the operations.                                               *)
(***************************************************************************)
SolutionIds == {"sol_001", "sol_002"}

\* an id no Solution carries
UnknownId == "sol_404"

\* Solution(...): the dataclass constructor takes every field, the success
\* metrics included.  Of the three timestamps the model keeps last_applied:
\* created_date is never written again, and last_updated is written only
\* where last_applied is, with the same value.
NewSolution(id, description, category, modules, versions, metrics) ==
    [solution_id |-> id,
     description |-> description,
     category |-> category,
     module_applicability |-> modules,
     baseline_versions |-> versions,
     success_count |-> metrics[1],
     failure_count |-> metrics[2],
     confidence_score |-> metrics[3],
     last_applied |-> NoTime]

\* <<success_count, failure_count, confidence_score>> a Solution is
\* constructed with: the defaults; preset counters with the default
\* confidence 0.0 (sol_001); a preset confidence (sol_002)
PresetMetrics(id) ==
    IF id = "sol_001" THEN {<<0, 0, Zero>>, <<8, 1, Zero>>}
    ELSE {<<0, 0, Zero>>, <<0, 0, Rat(9, 10)>>}

\* the description each Solution of the model carries
DescriptionOf(id) ==
    IF id = "sol_001" THEN "contact failure" ELSE "timeout"

\* Solutions a caller hands to add_solution
SolutionInputs ==
    UNION {{NewSolution(id, DescriptionOf(id), "contact_failure", {}, {}, m) :
                m \in PresetMetrics(id)} : id \in SolutionIds}

\* Knowledge-base files.  A file is unreadable (missing, or not JSON) or a
\* document with the records of 'solutions' in file order and the list
\* 'solution_history'.  A record is valid, or lacks a field the loader
\* requires (or holds a category or date it cannot parse).
FileRecord(valid, solution) == [valid |-> valid, solution |-> solution]

\* sol_001 as saved after one recorded success on day 0
SavedApplied ==
    [NewSolution("sol_001", DescriptionOf("sol_001"), "contact_failure", {}, {},
                 <<1, 0, Rat(73, 100)>>)
        EXCEPT !.last_applied = At(0)]

\* sol_002 as saved after it was added with a preset confidence
SavedPreset ==
    NewSolution("sol_002", DescriptionOf("sol_002"), "contact_failure", {}, {},
                <<0, 0, Rat(9, 10)>>)

\* the history as saved after that recorded success
SavedHistory ==
    <<[solution_id |-> "sol_001", error_message |-> "contact resistance",
       success |-> TRUE, timestamp |-> 0, context |-> "{}"]>>

\* a JSON document with the two collections
File(records, history) ==
    [exists |-> TRUE, readable |-> TRUE, has_collections |-> TRUE,
     solutions |-> records, solution_history |-> history]

\* a file that cannot be opened or is not JSON
UnreadableFile ==
    [exists |-> TRUE, readable |-> FALSE, has_collections |-> FALSE,
     solutions |-> <<>>, solution_history |-> <<>>]

\* no file at the path
MissingFile == [UnreadableFile EXCEPT !.exists = FALSE]

\* the JSON document {}: data.get('solutions', {}) and
\* data.get('solution_history', []) read it as two empty collections
EmptyObjectFile == [File(<<>>, <<>>) EXCEPT !.has_collections = FALSE]

\* JSON null
JsonNull == "null"

\* the record save_knowledge_base writes for a Solution: category.value or
\* null; the counters, the confidence and the ISO dates as they are
ToJson(solution) ==
    [solution EXCEPT !.category = IF @ = None THEN JsonNull ELSE @]

\* the Solution load_knowledge_base constructs from a record: a falsy
\* category gives None
FromJson(record) ==
    [record EXCEPT !.category = IF @ = JsonNull THEN None ELSE @]

\* Saved without the history
SavedWithoutHistory(sols, history) ==
    File([i \in 1..Len(sols) |-> FileRecord(TRUE, ToJson(sols[i]))], <<>>)

\* the document save_knowledge_base writes
Saved(sols, history) ==
    File([i \in 1..Len(sols) |-> FileRecord(TRUE, ToJson(sols[i]))], history)

\* an unreadable file; an empty knowledge base; saved knowledge bases of one
\* and two Solutions; files whose first or second record is malformed
FileInputs ==
    {UnreadableFile,
     File(<<>>, <<>>),
     File(<<FileRecord(TRUE, SavedApplied)>>, SavedHistory),
     File(<<FileRecord(TRUE, SavedApplied), FileRecord(TRUE, SavedPreset)>>,
          SavedHistory),
     File(<<FileRecord(FALSE, SavedPreset)>>, <<>>),
     File(<<FileRecord(TRUE, SavedApplied), FileRecord(FALSE, SavedPreset)>>,
          SavedHistory)}

\* error messages handed to record_solution_application and recommend_solutions
ErrorMessages == {"contact resistance", "timeout"}

\* <<solution_id, success>> handed to record_solution_application
RecordInputs ==
    {<<"sol_001", TRUE>>, <<"sol_001", FALSE>>, <<"sol_002", TRUE>>,
     <<UnknownId, TRUE>>}

\* context handed to record_solution_application
RecordContexts == {None}

\* <<issue_category, context, max_recommendations>> of a recommend_solutions call
QueryInputs ==
    {"contact_failure"} \X {NoContext} \X {5}

(***************************************************************************)
(* The SolutionRecommender as a state machine.                             *)
(***************************************************************************)
\* n copies of one labelled example
Copies(n, example) == [i \in 1..n |-> example]

\* training data: too short; five of each of two classes; nine and one
TrainingInputs ==
    { Copies(2, <<"timeout", "timeout">>),
      Copies(5, <<"timeout", "timeout">>)
          \o Copies(5, <<"contact resistance", "contact_failure">>),
      Copies(9, <<"timeout", "timeout">>)
          \o Copies(1, <<"contact resistance", "contact_failure">>) }

ClassifyInputs ==
    {"", "  ", "Device Timeout", "CONTACT RESISTANCE", "timeout",
     "calibration timeout, cal error", "flaky"}

\* no call of the recommender is in progress
NoCalls ==
    [reader |-> [pc |-> "idle", texts |-> <<>>],
     writer |-> [pc |-> "idle", call |-> [op |-> "none"]]]

\* SolutionRecommender.__init__ and IssueClassifier.__init__ without files
Init ==
    /\ solutions = <<>>
    /\ solution_history = <<>>
    /\ is_fitted = FALSE
    /\ vectorizer = NotFitted
    /\ classifier = Untrained
    /\ threads = NoCalls
    /\ now = 0
    /\ last = [op |-> "init"]

\* SolutionRecommender.add_solution(solution)
AddSolution(solution) ==
    /\ solutions' = DictSet(solutions, solution)
    /\ is_fitted' = FALSE
    /\ last' = [op |-> "add_solution", solution_id |-> solution.solution_id]
    /\ UNCHANGED <<solution_history, vectorizer, classifier, threads, now>>

\* the entry record_solution_application appends to the history
HistoryEntry(solution_id, error_message, success, context, t) ==
    [solution_id |-> solution_id,
     error_message |-> error_message,
     success |-> success,
     timestamp |-> t,
     context |-> IF context = None THEN "{}" ELSE context]

\* Recorded marking the engine stale before it looks the id up
RecordedStaleFirst(sols, history, fitted, solution_id, error_message, success, context, t) ==
    IF solution_id \notin Keys(sols)
    THEN [solutions |-> sols, solution_history |-> history,
          is_fitted |-> FALSE]
    ELSE [solutions |->
              [sols EXCEPT ![IndexOf(sols, solution_id)] =
                  UpdateSuccessMetrics(@, success, t)],
          solution_history |->
              Append(history,
                     HistoryEntry(solution_id, error_message, success,
                                  context, t)),
          is_fitted |-> FALSE]

\* Recorded putting the new entry first in the history
RecordedPrepends(sols, history, fitted, solution_id, error_message, success, context, t) ==
    IF solution_id \notin Keys(sols)
    THEN [solutions |-> sols, solution_history |-> history,
          is_fitted |-> fitted]
    ELSE [solutions |->
              [sols EXCEPT ![IndexOf(sols, solution_id)] =
                  UpdateSuccessMetrics(@, success, t)],
          solution_history |->
              <<HistoryEntry(solution_id, error_message, success, context, t)>>
                  \o history,
          is_fitted |-> FALSE]

\* what record_solution_application leaves in self.solutions,
\* self.solution_history and self.is_fitted, called at time t
Recorded(sols, history, fitted, solution_id, error_message, success, context, t) ==
    IF solution_id \notin Keys(sols)
    THEN [solutions |-> sols, solution_history |-> history,
          is_fitted |-> fitted]
    ELSE [solutions |->
              [sols EXCEPT ![IndexOf(sols, solution_id)] =
                  UpdateSuccessMetrics(@, success, t)],
          solution_history |->
              Append(history,
                     HistoryEntry(solution_id, error_message, success,
                                  context, t)),
          is_fitted |-> FALSE]

\* SolutionRecommender.record_solution_application(solution_id,
\*     error_message, success, context)
RecordSolutionApplication(solution_id, error_message, success, context) ==
    LET after == Recorded(solutions, solution_history, is_fitted,
                          solution_id, error_message, success, context, now)
    IN  /\ now < MaxRecorded
        /\ solutions' = after.solutions
        /\ solution_history' = after.solution_history
        /\ is_fitted' = after.is_fitted
        /\ last' = [op |-> "record_solution_application",
                    solution_id |-> solution_id,
                    error_message |-> error_message,
                    success |-> success,
                    context |-> context,
                    known |-> solution_id \in Keys(solutions),
                    raised |-> FALSE]
        /\ now' = now + 1
        /\ UNCHANGED <<vectorizer, classifier, threads>>

\* what `last` holds for a call that raised instead of returning
NoResult ==
    [solutions |-> <<>>,
     recommendation_confidence |-> Zero,
     explanation |-> "raised",
     total_solutions_considered |-> 0]

\* the operation before this one was recommend_solutions with these arguments
SameCall(before, error_message, issue_category, context, max_recommendations) ==
    /\ before.op = "recommend_solutions"
    /\ before.error_message = error_message
    /\ before.issue_category = issue_category
    /\ before.context = context
    /\ before.max_recommendations = max_recommendations

\* SolutionRecommender.recommend_solutions(error_message, issue_category,
\*     context, max_recommendations)
RecommendSolutions(error_message, issue_category, context, max_recommendations) ==
    LET fit == LazyFit(solutions, solution_history, vectorizer, is_fitted)
    IN  /\ vectorizer' = fit.vectorizer
        /\ is_fitted' = fit.is_fitted
        /\ last' =
            [op |-> "recommend_solutions",
             error_message |-> error_message,
             issue_category |-> issue_category,
             context |-> context,
             max_recommendations |-> max_recommendations,
             was_fitted |-> is_fitted,
             called_at |-> now,
             repeated |-> SameCall(last, error_message, issue_category,
                                   context, max_recommendations),
             raised |-> fit.raised,
             candidates |->
                IF fit.raised \/ solutions = <<>> THEN {}
                ELSE Keys(GetCandidateSolutions(solutions, issue_category,
                                                context)),
             result |->
                IF fit.raised THEN NoResult
                ELSE RecommendationResult(solutions, fit.vectorizer,
                         fit.is_fitted, error_message, issue_category,
                         context, max_recommendations, now)]
        /\ UNCHANGED <<solutions, solution_history, classifier, threads, now>>

\* the records the loader's loop reads before it stops: all of them, or
\* those before the first record it cannot construct a Solution from
RECURSIVE ValidPrefix(_)
ValidPrefix(records) ==
    IF records = <<>> \/ ~Head(records).valid THEN <<>>
    ELSE <<Head(records)>> \o ValidPrefix(Tail(records))

\* self.solutions = {}; self.solutions[solution_id] = solution, per record
RECURSIVE LoadedSolutions(_, _)
LoadedSolutions(sols, records) ==
    IF records = <<>> THEN sols
    ELSE LoadedSolutions(DictSet(sols, FromJson(Head(records).solution)),
                         Tail(records))

\* what load_knowledge_base leaves in self.solutions,
\* self.solution_history and self.is_fitted, and whether it raised: open or
\* json.load raise before anything is assigned; a record that cannot be
\* constructed raises after self.solutions = {} and the records before it
Loaded(sols, history, fitted, file) ==
    LET read == ValidPrefix(file.solutions)
    IN  IF ~file.readable
        THEN [raised |-> TRUE, solutions |-> sols,
              solution_history |-> history, is_fitted |-> fitted]
        ELSE IF Len(read) < Len(file.solutions)
        THEN [raised |-> TRUE, solutions |-> LoadedSolutions(<<>>, read),
              solution_history |-> history, is_fitted |-> fitted]
        ELSE [raised |-> FALSE, solutions |-> LoadedSolutions(<<>>, read),
              solution_history |-> file.solution_history,
              is_fitted |-> FALSE]

\* the file is the one the operation before wrote
JustSaved(file) ==
    last.op = "save_knowledge_base" /\ ~last.raised /\ last.file = file

\* SolutionRecommender.load_knowledge_base(path), file being what path holds
LoadKnowledgeBase(file) ==
    LET after == Loaded(solutions, solution_history, is_fitted, file)
    IN  /\ solutions' = after.solutions
        /\ solution_history' = after.solution_history
        /\ is_fitted' = after.is_fitted
        /\ last' = [op |-> "load_knowledge_base",
                    file |-> file,
                    after_save |-> JustSaved(file),
                    raised |-> after.raised]
        /\ UNCHANGED <<vectorizer, classifier, threads, now>>

\* SolutionRecommender.save_knowledge_base(path); open(path, 'w') raises
\* when the path is not writable
SaveKnowledgeBase(writable) ==
    /\ last' = [op |-> "save_knowledge_base",
                file |-> IF writable THEN Saved(solutions, solution_history)
                         ELSE MissingFile,
                raised |-> ~writable]
    /\ UNCHANGED <<solutions, solution_history, is_fitted, vectorizer,
                   classifier, threads, now>>

\* SolutionRecommender(knowledge_base_path) with file at the path: a new
\* recommender takes the place of the old one, unless the constructor raises
Construct(file) ==
    LET after == IF file.exists
                 THEN Loaded(<<>>, <<>>, FALSE, file)
                 ELSE [raised |-> FALSE, solutions |-> <<>>,
                       solution_history |-> <<>>, is_fitted |-> FALSE]
    IN  /\ IF after.raised
           THEN UNCHANGED <<solutions, solution_history, is_fitted,
                            vectorizer>>
           ELSE /\ solutions' = after.solutions
                /\ solution_history' = after.solution_history
                /\ is_fitted' = after.is_fitted
                /\ vectorizer' = NotFitted
        /\ last' = [op |-> "construct",
                    file |-> file,
                    after_save |-> JustSaved(file),
                    raised |-> after.raised]
        /\ UNCHANGED <<classifier, threads, now>>

\* what a train_model call leaves in last
TrainCall(raised, stage, fallback, results) ==
    [op |-> "train_model", raised |-> raised, stage |-> stage,
     fallback |-> fallback, results |-> results]

NoResults ==
    [training_examples |-> 0, validation_examples |-> 0,
     feature_count |-> 0, class_count |-> 0]

\* the outcomes of train_model after the split: the vectorizer's fit raises
\* ValueError when the training texts hold nothing but stop words; the fit
\* of a model raises when fit_error names it
SplitOutcomes(cls, training_data, split, fit_error, t) ==
    LET fallback == ~Stratifiable(training_data)
    IN  IF ClassifierFeatures(split.X_train) = {}
        THEN {[classifier |-> cls,
               call |-> TrainCall(TRUE, "vectorizer", fallback, NoResults)]}
        ELSE IF fit_error # "none"
        THEN {[classifier |-> FitInterrupted(cls, split, fit_error, kept),
               call |-> TrainCall(TRUE, fit_error, fallback, NoResults)] :
                kept \in BOOLEAN}
        ELSE {[classifier |-> Trained(split, class_names, t),
               call |-> TrainCall(FALSE, "none", fallback,
                            TrainingResults(training_data, split,
                                            class_names))] :
                class_names \in Orderings(Labels(training_data))}

\* the outcomes of train_model(training_data) on the classifier cls
TrainOutcomes(cls, training_data, fit_error, t) ==
    IF Len(training_data) < 10
    THEN {[classifier |-> cls,
           call |-> TrainCall(TRUE, "examples", FALSE, NoResults)]}
    ELSE UNION {SplitOutcomes(cls, training_data, split, fit_error, t) :
                    split \in Splits(training_data)}

\* IssueClassifier.train_model(training_data).  fit_error says whether the
\* fit of the primary model ("classifier") or of the secondary model
\* ("backup_classifier") raises in this call, or none does ("none")
TrainModel(training_data, fit_error) ==
    /\ \E outcome \in TrainOutcomes(classifier, training_data, fit_error, now) :
            /\ classifier' = outcome.classifier
            /\ last' = outcome.call
    /\ UNCHANGED <<solutions, solution_history, is_fitted, vectorizer,
                   threads, now>>

\* the result of a call that raises
NoClassification ==
    [path |-> "raised", category |-> "unknown", confidence |-> Zero,
     explanation |-> "", features_used |-> <<>>,
     alternative_categories |-> <<>>]

\* classify_issue without the except clause around _ml_classify
ClassifiedWithoutFallback(cls, error_message) ==
    IF Strip(error_message) = ""
    THEN {[raised |-> FALSE, ml_raised |-> FALSE,
           result |-> [path |-> "empty", category |-> "unknown",
                       confidence |-> Zero,
                       explanation |-> "Empty error message",
                       features_used |-> <<>>,
                       alternative_categories |-> <<>>]]}
    ELSE IF cls.is_trained /\ MlRaises(cls)
    THEN {[raised |-> TRUE, ml_raised |-> TRUE, result |-> NoClassification]}
    ELSE IF cls.is_trained
    THEN UNION {{[raised |-> FALSE, ml_raised |-> FALSE,
                  result |-> MlClassify(cls, ensemble_proba, sorted_indices)] :
                    sorted_indices \in SortedIndices(ensemble_proba)} :
                ensemble_proba \in EnsembleProbas(ProbaLength(cls))}
    ELSE {[raised |-> FALSE, ml_raised |-> FALSE,
           result |-> RuleBasedClassify(error_message)]}

\* the outcomes of classify_issue(error_message) on the classifier cls: the
\* empty result, the models' result, or the rule path's, which also
\* replaces an exception of _ml_classify
Classified(cls, error_message) ==
    IF Strip(error_message) = ""
    THEN {[raised |-> FALSE, ml_raised |-> FALSE,
           result |-> [path |-> "empty", category |-> "unknown",
                       confidence |-> Zero,
                       explanation |-> "Empty error message",
                       features_used |-> <<>>,
                       alternative_categories |-> <<>>]]}
    ELSE IF cls.is_trained /\ ~MlRaises(cls)
    THEN UNION {{[raised |-> FALSE, ml_raised |-> FALSE,
                  result |-> MlClassify(cls, ensemble_proba, sorted_indices)] :
                    sorted_indices \in SortedIndices(ensemble_proba)} :
                ensemble_proba \in EnsembleProbas(ProbaLength(cls))}
    ELSE {[raised |-> FALSE, ml_raised |-> cls.is_trained,
           result |-> RuleBasedClassify(error_message)]}

\* IssueClassifier.classify_issue(error_message); the context reaches only
\* the text the models are given and is left out
ClassifyIssue(error_message) ==
    /\ \E outcome \in Classified(classifier, error_message) :
          last' = [op |-> "classify_issue",
                   error_message |-> error_message,
                   was_trained |-> classifier.is_trained,
                   raised |-> outcome.raised,
                   ml_raised |-> outcome.ml_raised,
                   result |-> outcome.result]
    /\ UNCHANGED <<solutions, solution_history, is_fitted, vectorizer,
                   classifier, threads, now>>

Next ==
    \/ \E solution \in SolutionInputs : AddSolution(solution)
    \/ \E outcome \in RecordInputs, context \in RecordContexts :
            RecordSolutionApplication(outcome[1], "contact resistance",
                                      outcome[2], context)
    \/ \E msg \in {"contact resistance"}, q \in QueryInputs :
            RecommendSolutions(msg, q[1], q[2], q[3])
    \/ \E file \in FileInputs : LoadKnowledgeBase(file)

Spec == Init /\ [][Next]_vars

(***************************************************************************)
(* Persistence: knowledge bases with and without a category, a preset      *)
(* confidence and a recorded outcome are saved, and loaded again into the  *)
(* same recommender or a new one; files that are missing or malformed are  *)
(* loaded as well.                                                         *)
(***************************************************************************)
PersistSolutionInputs ==
    {NewSolution("sol_001", "contact failure", "contact_failure", {}, {},
                 <<0, 0, Zero>>),
     NewSolution("sol_002", "timeout", None, {}, {}, <<0, 0, Rat(9, 10)>>)}

PersistFileInputs ==
    {MissingFile, UnreadableFile, EmptyObjectFile,
     File(<<FileRecord(TRUE, SavedApplied), FileRecord(FALSE, SavedPreset)>>,
          SavedHistory)}

\* the file written by the operation before, if it was a save
SavedFiles ==
    IF last.op = "save_knowledge_base" /\ ~last.raised THEN {last.file} ELSE {}

NextPersist ==
    \/ \E solution \in PersistSolutionInputs : AddSolution(solution)
    \/ \E success \in BOOLEAN :
            RecordSolutionApplication("sol_001", "contact resistance",
                                      success, None)
    \/ \E q \in QueryInputs :
            RecommendSolutions("contact resistance", q[1], q[2], q[3])
    \/ \E writable \in BOOLEAN : SaveKnowledgeBase(writable)
    \/ \E file \in PersistFileInputs \cup SavedFiles : LoadKnowledgeBase(file)
    \/ \E file \in PersistFileInputs \cup SavedFiles : Construct(file)

SpecPersist == Init /\ [][NextPersist]_vars

(***************************************************************************)
(* The classifier alone: texts with no, one, two and three matches of a    *)
(* category, with ties between categories, and training data of two and    *)
(* three classes.                                                          *)
(***************************************************************************)
ClassifierInputs ==
    ClassifyInputs \cup {"Contact failure detected on pin 5",
                         "Contact failure: out of memory",
                         "timeout: connection timeout, test timeout"}

\* the inputs of the readers, three classes of four, and texts of stop words
ClassifierTrainingInputs ==
    TrainingInputs \cup
    { Copies(4, <<"timeout", "timeout">>)
          \o Copies(4, <<"contact resistance", "contact_failure">>)
          \o Copies(4, <<"Device Timeout", "device_error">>),
      Copies(10, <<"the", "timeout">>) }

\* whether the fit of a model raises in a train_model call, and of which
FitErrors == {"none", "classifier", "backup_classifier"}

NextClassifier ==
    \/ \E training_data \in ClassifierTrainingInputs, fit_error \in FitErrors :
            TrainModel(training_data, fit_error)
    \/ \E error_message \in ClassifierInputs : ClassifyIssue(error_message)

SpecClassifier == Init /\ [][NextClassifier]_vars

(***************************************************************************)
(* Ranking: queries whose text equals a description or shares nothing with *)
(* any, for either category and for one or five recommendations, against   *)
(* knowledge bases with recorded outcomes, while days pass.                *)
(***************************************************************************)
\* a day passes; no operation is called
Tick ==
    /\ now < MaxRecorded
    /\ now' = now + 1
    /\ UNCHANGED <<solutions, solution_history, is_fitted, vectorizer,
                   classifier, threads, last>>

\* sol_001 and sol_002 with the defaults, sol_002 also with a description of
\* stop words only
RankSolutionInputs ==
    {NewSolution("sol_001", "contact failure", "contact_failure", {}, {},
                 <<0, 0, Zero>>)}
    \cup {NewSolution("sol_002", description, "contact_failure", {}, {},
                      <<0, 0, Zero>>) : description \in {"timeout", "the"}}

RankRecordInputs ==
    {<<"sol_001", TRUE>>, <<"sol_001", FALSE>>, <<"sol_002", TRUE>>}

RankQueryInputs ==
    {"contact failure", "flaky"} \X {"contact_failure", "timeout"} \X {1, 5}

NextRanking ==
    \/ \E solution \in RankSolutionInputs : AddSolution(solution)
    \/ \E outcome \in RankRecordInputs :
            RecordSolutionApplication(outcome[1], "contact resistance",
                                      outcome[2], None)
    \/ \E q \in RankQueryInputs :
            RecommendSolutions(q[1], q[2], NoContext, q[3])
    \/ Tick

SpecRanking == Init /\ [][NextRanking]_vars

(***************************************************************************)
(* The routing layer (src/src/api/endpoints/recommender.py).  The          *)
(* recommender the endpoint is given is the SolutionRecommender.           *)
(***************************************************************************)
\* the public methods of SolutionRecommender
RecommenderMethods ==
    {"add_solution", "record_solution_application", "recommend_solutions",
     "save_knowledge_base", "load_knowledge_base", "get_statistics"}

\* get_recommendations(issue_text, top_k, min_similarity): the status of the
\* response and its list of recommendations; the endpoint calls
\* recommender.recommend_solution, which raises AttributeError when the
\* class has no method of that name, and an exception of the call becomes
\* the response 500
Recommendations(issue_text, top_k, min_similarity) ==
    IF Strip(issue_text) = ""
    THEN [status |-> 400, detail |-> "Issue text cannot be empty",
          recommendations |-> <<>>]
    ELSE IF top_k < 1 \/ top_k > 50
    THEN [status |-> 400, detail |-> "top_k must be between 1 and 50",
          recommendations |-> <<>>]
    ELSE IF RLt(min_similarity, Zero) \/ RLt(One, min_similarity)
    THEN [status |-> 400, detail |-> "min_similarity must be between 0 and 1",
          recommendations |-> <<>>]
    ELSE IF "recommend_solution" \notin RecommenderMethods
    THEN [status |-> 500, detail |-> "Recommendation failed",
          recommendations |-> <<>>]
    ELSE [status |-> 200, detail |-> "No solutions found",
          recommendations |-> <<>>]

\* POST /recommend
GetRecommendations(issue_text, top_k, min_similarity) ==
    /\ last' = [op |-> "get_recommendations",
                issue_text |-> issue_text,
                top_k |-> top_k,
                min_similarity |-> min_similarity,
                response |-> Recommendations(issue_text, top_k, min_similarity)]
    /\ UNCHANGED <<solutions, solution_history, is_fitted, vectorizer,
                   classifier, threads, now>>

ApiRequestInputs ==
    {"contact failure", "  "}
        \X {0, 1, 5, 51}
        \X {Zero, Rat(1, 2), Rat(11, 10)}

NextApi ==
    \/ \E solution \in RankSolutionInputs : AddSolution(solution)
    \/ \E q \in RankQueryInputs :
            RecommendSolutions(q[1], q[2], NoContext, q[3])
    \/ \E request \in ApiRequestInputs :
            GetRecommendations(request[1], request[2], request[3])

SpecApi == Init /\ [][NextApi]_vars

(***************************************************************************)
(* The V93K log parser (src/src/parsers).  A path names nothing, a         *)
(* directory or a regular file; a regular file has lines and may refuse to *)
(* be opened.  What the patterns find in the lines of the model is tabled. *)
(***************************************************************************)
MaxLines == 3

LogLines == {"Error: pin open", "Warning: drift", "runtime error", "PASS: t1"}

\* the lines for which _extract_errors_and_warnings adds an entry of
\* severity 'error': the error pattern or a V93K error pattern matches
ErrorLines == {"Error: pin open", "runtime error"}

\* the lines for which it adds an entry of severity 'warning'
WarningLines == {"Warning: drift"}

RECURSIVE LinesUpTo(_)
LinesUpTo(n) ==
    IF n = 0 THEN {<<>>}
    ELSE LinesUpTo(n - 1)
            \cup {Append(lines, line) :
                    lines \in {l \in LinesUpTo(n - 1) : Len(l) = n - 1},
                    line \in LogLines}

LogFile(kind, readable, lines) ==
    [kind |-> kind, readable |-> readable, lines |-> lines]

ParserFileInputs ==
    {LogFile("missing", FALSE, <<>>), LogFile("directory", FALSE, <<>>)}
    \cup {LogFile("regular", readable, lines) :
            readable \in BOOLEAN, lines \in LinesUpTo(MaxLines)}

\* ValidateFile that does not look at the size
ValidateFileAnySize(file) == file.kind = "regular"

\* BaseParser.validate_file: path.exists() and path.is_file() and
\* path.stat().st_size > 0; a file of no lines has size 0
ValidateFile(file) ==
    /\ file.kind # "missing"
    /\ file.kind = "regular"
    /\ Len(file.lines) > 0

\* ParserResult(file_path, file_type='v93k_log')
NewParserResult ==
    [parsing_successful |-> TRUE,
     parsing_errors |-> <<>>,
     raw_content |-> <<>>,
     error_messages |-> <<>>,
     warnings |-> <<>>]

\* ParserResult.add_parsing_error
AddParsingError(result, error) ==
    [result EXCEPT !.parsing_errors = Append(@, error),
                   !.parsing_successful = FALSE]

\* the try block of parse_file: read_file_content raises ParsingError when
\* the file cannot be opened, which the except clause records; otherwise
\* the content is kept and the errors and warnings are extracted
Parsed(file) ==
    IF ~file.readable
    THEN AddParsingError(NewParserResult, "Failed to parse V93K log")
    ELSE [NewParserResult EXCEPT
            !.raw_content = file.lines,
            !.error_messages =
                SelectSeq(file.lines, LAMBDA line : line \in ErrorLines),
            !.warnings =
                SelectSeq(file.lines, LAMBDA line : line \in WarningLines)]

\* V93KLogParser.parse_file(file_path), file being what the path names
ParseFile(file) ==
    /\ last' = IF ~ValidateFile(file)
               THEN [op |-> "parse_file", file |-> file, raised |-> TRUE,
                     returned |-> FALSE, result |-> NewParserResult]
               ELSE [op |-> "parse_file", file |-> file, raised |-> FALSE,
                     returned |-> TRUE, result |-> Parsed(file)]
    /\ UNCHANGED <<solutions, solution_history, is_fitted, vectorizer,
                   classifier, threads, now>>

NextParser == \E file \in ParserFileInputs : ParseFile(file)

SpecParser == Init /\ [][NextParser]_vars

(***************************************************************************)
(* Scoring: Solutions that come with counters (three failures; two         *)
(* successes and a failure; three successes) next to one that starts from  *)
(* the defaults, outcomes recorded on both, and queries on later days.     *)
(***************************************************************************)
ScoringSolutionInputs ==
    {NewSolution("sol_001", "contact failure", "contact_failure", {}, {},
                 <<0, 0, Zero>>)}
    \cup {NewSolution("sol_002", "contact resistance", "contact_failure", {}, {},
                      metrics) :
            metrics \in {<<0, 3, Zero>>, <<2, 1, Rat(167, 300)>>,
                         <<3, 0, Rat(79, 100)>>}}

ScoringQueryInputs == {"contact failure", "contact resistance"} \X {1, 5}

NextScoring ==
    \/ \E solution \in ScoringSolutionInputs : AddSolution(solution)
    \/ \E outcome \in RankRecordInputs :
            RecordSolutionApplication(outcome[1], "contact resistance",
                                      outcome[2], None)
    \/ \E q \in ScoringQueryInputs :
            RecommendSolutions(q[1], "contact_failure", NoContext, q[2])
    \/ Tick

SpecScoring == Init /\ [][NextScoring]_vars

(***************************************************************************)
(* The readers: recommend_solutions and classify_issue next to the         *)
(* operations that change what they read.  No outcome is recorded, so the  *)
(* clock stays at day 0.                                                   *)
(***************************************************************************)
ReaderFileInputs ==
    {File(<<FileRecord(TRUE, SavedApplied)>>, <<>>),
     File(<<FileRecord(TRUE, SavedPreset), FileRecord(FALSE, SavedApplied)>>,
          <<>>)}

NextReaders ==
    \/ \E solution \in SolutionInputs : AddSolution(solution)
    \/ \E file \in ReaderFileInputs : LoadKnowledgeBase(file)
    \/ \E msg \in ErrorMessages, q \in QueryInputs :
            RecommendSolutions(msg, q[1], q[2], q[3])
    \/ \E training_data \in TrainingInputs : TrainModel(training_data, "none")
    \/ \E error_message \in ClassifyInputs : ClassifyIssue(error_message)

SpecReaders == Init /\ [][NextReaders]_vars

(***************************************************************************)
(* Two threads on one SolutionRecommender, which holds no lock.  The       *)
(* reader thread calls recommend_solutions, the writer thread add_solution *)
(* or record_solution_application; a step is one statement's read or write *)
(* of the shared fields.                                                   *)
(***************************************************************************)
ReaderAt(pc) == threads.reader.pc = pc
WriterAt(pc) == threads.writer.pc = pc

ReaderGoto(pc) == threads' = [threads EXCEPT !.reader.pc = pc]
WriterGoto(pc) == threads' = [threads EXCEPT !.writer.pc = pc]

\* the arguments of the reader thread's calls
ReaderQuery ==
    [error_message |-> "contact resistance",
     issue_category |-> "contact_failure",
     context |-> NoContext,
     max_recommendations |-> 5]

\* recommend_solutions is called: "if not self.solutions" returns the empty
\* result, otherwise "if not self.is_fitted" is next
ReaderCall ==
    /\ ReaderAt("idle")
    /\ IF solutions = <<>>
       THEN /\ UNCHANGED threads
            /\ last' = [op |-> "recommend_solutions", raised |-> FALSE,
                        result |-> RecommendationResult(solutions, vectorizer,
                            is_fitted, ReaderQuery.error_message,
                            ReaderQuery.issue_category, ReaderQuery.context,
                            ReaderQuery.max_recommendations, now)]
       ELSE /\ ReaderGoto("check_fitted")
            /\ last' = [op |-> "call"]
    /\ UNCHANGED <<solutions, solution_history, is_fitted, vectorizer,
                   classifier, now>>

\* "if not self.is_fitted: self._fit_vectorizer()"
ReaderCheckFitted ==
    /\ ReaderAt("check_fitted")
    /\ ReaderGoto(IF is_fitted THEN "score" ELSE "collect")
    /\ last' = [op |-> "step"]
    /\ UNCHANGED <<solutions, solution_history, is_fitted, vectorizer,
                   classifier, now>>

\* _fit_vectorizer collects the texts of the Solutions and the history
ReaderCollect ==
    /\ ReaderAt("collect")
    /\ threads' = [threads EXCEPT
            !.reader.pc = IF solutions = <<>> THEN "score" ELSE "fit",
            !.reader.texts = IF solutions = <<>> THEN <<>>
                             ELSE CorpusTexts(solutions, solution_history)]
    /\ last' = [op |-> "step"]
    /\ UNCHANGED <<solutions, solution_history, is_fitted, vectorizer,
                   classifier, now>>

\* "self.vectorizer.fit(texts)"; a ValueError ends the call
ReaderFit ==
    LET fit == VectorizerFit(vectorizer, threads.reader.texts)
    IN  /\ ReaderAt("fit")
        /\ vectorizer' = fit.vectorizer
        /\ threads' = [threads EXCEPT
                !.reader.pc = IF fit.raised THEN "idle" ELSE "set_fitted",
                !.reader.texts = IF fit.raised THEN <<>> ELSE @]
        /\ last' = IF fit.raised
                   THEN [op |-> "recommend_solutions", raised |-> TRUE,
                         result |-> NoResult]
                   ELSE [op |-> "step"]
        /\ UNCHANGED <<solutions, solution_history, is_fitted, classifier,
                       now>>

\* "self.is_fitted = True"
ReaderSetFitted ==
    /\ ReaderAt("set_fitted")
    /\ is_fitted' = TRUE
    /\ threads' = [threads EXCEPT !.reader.pc = "score",
                                  !.reader.texts = <<>>]
    /\ last' = [op |-> "step"]
    /\ UNCHANGED <<solutions, solution_history, vectorizer, classifier, now>>

\* the candidates are taken and scored, and the result is returned
ReaderScore ==
    /\ ReaderAt("score")
    /\ ReaderGoto("idle")
    /\ last' = [op |-> "recommend_solutions", raised |-> FALSE,
                result |-> RecommendationResult(solutions, vectorizer,
                    is_fitted, ReaderQuery.error_message,
                    ReaderQuery.issue_category, ReaderQuery.context,
                    ReaderQuery.max_recommendations, now)]
    /\ UNCHANGED <<solutions, solution_history, is_fitted, vectorizer,
                   classifier, now>>

\* add_solution(solution) is called
WriterCallAdd(solution) ==
    /\ WriterAt("idle")
    /\ threads' = [threads EXCEPT
            !.writer.pc = "insert",
            !.writer.call = [op |-> "add_solution", solution |-> solution]]
    /\ last' = [op |-> "call"]
    /\ UNCHANGED <<solutions, solution_history, is_fitted, vectorizer,
                   classifier, now>>

\* "self.solutions[solution.solution_id] = solution"
WriterInsert ==
    /\ WriterAt("insert")
    /\ solutions' = DictSet(solutions, threads.writer.call.solution)
    /\ WriterGoto("invalidate")
    /\ last' = [op |-> "step"]
    /\ UNCHANGED <<solution_history, is_fitted, vectorizer, classifier, now>>

\* record_solution_application(solution_id, error_message, success) is
\* called: an unknown id returns, a known one has its metrics updated
WriterCallRecord(solution_id, error_message, success) ==
    /\ WriterAt("idle")
    /\ now < MaxRecorded
    /\ now' = now + 1
    /\ IF solution_id \notin Keys(solutions)
       THEN /\ UNCHANGED <<solutions, threads>>
            /\ last' = [op |-> "record_solution_application",
                        known |-> FALSE]
       ELSE /\ solutions' =
                    [solutions EXCEPT ![IndexOf(solutions, solution_id)] =
                        UpdateSuccessMetrics(@, success, now)]
            /\ threads' = [threads EXCEPT
                    !.writer.pc = "append",
                    !.writer.call =
                        [op |-> "record_solution_application",
                         entry |-> HistoryEntry(solution_id, error_message,
                                                success, None, now)]]
            /\ last' = [op |-> "call"]
    /\ UNCHANGED <<solution_history, is_fitted, vectorizer, classifier>>

\* "self.solution_history.append(history_entry)"
WriterAppend ==
    /\ WriterAt("append")
    /\ solution_history' = Append(solution_history, threads.writer.call.entry)
    /\ WriterGoto("invalidate")
    /\ last' = [op |-> "step"]
    /\ UNCHANGED <<solutions, is_fitted, vectorizer, classifier, now>>

\* "self.is_fitted = False", the last statement of both writers
WriterInvalidate ==
    /\ WriterAt("invalidate")
    /\ is_fitted' = FALSE
    /\ threads' = [threads EXCEPT !.writer.pc = "idle",
                                  !.writer.call = [op |-> "none"]]
    /\ last' = [op |-> "returned"]
    /\ UNCHANGED <<solutions, solution_history, vectorizer, classifier, now>>

\* the Solutions the writer thread adds
ConcSolutionInputs ==
    {NewSolution(id, DescriptionOf(id), "contact_failure", {}, {},
                 <<0, 0, Zero>>) : id \in SolutionIds}

NextConc ==
    \/ ReaderCall
    \/ ReaderCheckFitted
    \/ ReaderCollect
    \/ ReaderFit
    \/ ReaderSetFitted
    \/ ReaderScore
    \/ \E solution \in ConcSolutionInputs : WriterCallAdd(solution)
    \/ WriterInsert
    \/ \E id \in {"sol_001", UnknownId}, success \in BOOLEAN :
            WriterCallRecord(id, "timeout", success)
    \/ WriterAppend
    \/ WriterInvalidate

SpecConc == Init /\ [][NextConc]_vars

(***************************************************************************)
(* Candidate filtering: the knowledge base is filled with Solutions of     *)
(* every combination of category, module allow-list and baseline-version   *)
(* allow-list, and queried with every combination of category and context. *)
(* load_knowledge_base builds the three fields like the constructor does,  *)
(* so files add no knowledge base add_solution does not give.              *)
(***************************************************************************)
FilterSolutionInputs ==
    {NewSolution(id, DescriptionOf(id), category, modules, versions,
                 <<0, 0, Zero>>) :
        id \in SolutionIds,
        category \in {None, "contact_failure"},
        modules \in {{}, {"CONTACT_TEST"}},
        versions \in {{}, {"v2.1.0"}}}

FilterContexts ==
    [module_name : {Absent, "CONTACT_TEST", "SCAN_TEST"},
     baseline_version : {Absent, "v2.1.0", "v3.0.0"}]

FilterQueryInputs ==
    {"contact_failure", "timeout"} \X FilterContexts \X {1, 5}

NextFilter ==
    \/ \E solution \in FilterSolutionInputs : AddSolution(solution)
    \/ \E q \in FilterQueryInputs :
            RecommendSolutions("contact resistance", q[1], q[2], q[3])

SpecFilter == Init /\ [][NextFilter]_vars

(***************************************************************************)
(* Properties.                                                             *)
(***************************************************************************)
Returned == last.op = "recommend_solutions" /\ ~last.raised

\* the Solutions of the last RecommendationResult
ReturnedSolutions ==
    {Lookup(solutions, last.result.solutions[i].solution_id) :
        i \in DOMAIN last.result.solutions}

\* C1: recommend_solutions(text, C, context) returns only Solutions whose
\* category is C or unset, never one whose category is set and differs
\* from C.
C1_OnlyQueryCategoryReturned ==
    Returned =>
        \A s \in ReturnedSolutions :
            s.category = None \/ s.category = last.issue_category

\* a recommendation came back non-empty from a knowledge base that also
\* holds a Solution of another category
C1_Witness ==
    /\ Returned
    /\ last.result.solutions # <<>>
    /\ \E i \in DOMAIN solutions :
          /\ solutions[i].category # None
          /\ solutions[i].category # last.issue_category

\* the candidate condition as the specification states it
Supplied(context, key) == context[key]

PassesFilter(allow_list, supplied) ==
    supplied = Absent \/ allow_list = {} \/ supplied \in allow_list

\* C10: a Solution is a candidate iff (category unset or equal to the query
\* category) and (module allow-list empty or holding context.module_name,
\* when supplied) and (baseline allow-list empty or holding
\* context.baseline_version, when supplied); a filter with no context value
\* excludes nothing.
C10_CandidateIff ==
    (Returned /\ solutions # <<>>) =>
        \A i \in DOMAIN solutions :
            solutions[i].solution_id \in last.candidates <=>
                /\ solutions[i].category \in {None, last.issue_category}
                /\ PassesFilter(solutions[i].module_applicability,
                                Supplied(last.context, "module_name"))
                /\ PassesFilter(solutions[i].baseline_versions,
                                Supplied(last.context, "baseline_version"))

\* a query with a module name and a baseline version, one Solution kept and
\* one dropped by an allow-list
C10_Witness ==
    /\ Returned
    /\ last.context.module_name # Absent
    /\ last.context.baseline_version # Absent
    /\ \E i, j \in DOMAIN solutions :
          /\ solutions[i].solution_id \in last.candidates
          /\ solutions[i].module_applicability # {}
          /\ solutions[j].solution_id \notin last.candidates
          /\ solutions[j].category \in {None, last.issue_category}


(***************************************************************************)
(* Feedback.                                                               *)
(***************************************************************************)
\* the update rule as the specification states it:
\* 0.7 * success_rate + 0.3 * min(1.0, (success_count + failure_count) / 10)
RuleValue(success_count, failure_count) ==
    LET total == success_count + failure_count
        rate == IF total = 0 THEN Zero ELSE Rat(success_count, total)
        volume == IF total >= 10 THEN One ELSE Rat(total, 10)
    IN  RAdd(RMul(Rat(7, 10), rate), RMul(Rat(3, 10), volume))

HoldsRuleValue(s) ==
    s.confidence_score = RuleValue(s.success_count, s.failure_count)

\* the step is a call of record_solution_application with a known id
RecordedKnown ==
    last'.op = "record_solution_application" /\ last'.known

\* the step is a call of record_solution_application with an unknown id
RecordedUnknown ==
    last'.op = "record_solution_application" /\ ~last'.known

\* the Solution a step of record_solution_application names, before and after
Target == Lookup(solutions, last'.solution_id)
TargetAfter == Lookup(solutions', last'.solution_id)

\* C2: in every state add_solution, record_solution_application and
\* load_knowledge_base reach, every Solution's confidence_score is the update
\* rule on its current counters, or the 0.0 it carries from construction
\* until its first recorded outcome.
C2_ConfidenceAlwaysRule ==
    \A i \in DOMAIN solutions :
        \/ HoldsRuleValue(solutions[i])
        \/ /\ solutions[i].confidence_score = Zero
           /\ solutions[i].last_applied = NoTime

\* every Solution but the one the step names is as it was
OthersUnchanged ==
    /\ Len(solutions') = Len(solutions)
    /\ \A i \in DOMAIN solutions :
          solutions[i].solution_id # last'.solution_id =>
              solutions'[i] = solutions[i]

\* C3: record_solution_application on a known id adds exactly 1 to the
\* Solution's success_count (success) or failure_count (failure) and leaves
\* the other counter; the counters and confidence_score of every other
\* Solution are unchanged.
C3_ExactlyOneCounter ==
    [][RecordedKnown =>
        /\ TargetAfter.success_count =
              Target.success_count + (IF last'.success THEN 1 ELSE 0)
        /\ TargetAfter.failure_count =
              Target.failure_count + (IF last'.success THEN 0 ELSE 1)
        /\ OthersUnchanged
      ]_vars

\* a success was recorded for one of two Solutions
C3_Witness ==
    /\ last.op = "record_solution_application"
    /\ last.known
    /\ last.success
    /\ Len(solutions) = 2
    /\ Lookup(solutions, last.solution_id).success_count = 9

\* the step records a success that raises the Solution's success rate
SuccessRaisedRate ==
    /\ RecordedKnown
    /\ last'.success
    /\ RLt(GetSuccessRate(Target), GetSuccessRate(TargetAfter))

\* C4: after record_solution_application(id, text, success=True) the
\* Solution's confidence_score is at least what it was whenever its success
\* rate increased, for every Solution, however it was added or loaded.
C4_ConfidenceNeverDrops ==
    [][SuccessRaisedRate =>
        RLeq(Target.confidence_score, TargetAfter.confidence_score)]_vars

\* C5: record_solution_application with an unknown id returns without
\* raising and changes nothing: no Solution, no history entry, not is_fitted.
C5_UnknownIdNoOp ==
    [][RecordedUnknown =>
        /\ ~last'.raised
        /\ UNCHANGED <<solutions, solution_history, is_fitted, vectorizer>>
      ]_vars

\* an unknown id was recorded against a fitted, non-empty knowledge base with
\* a history
C5_Witness ==
    /\ last.op = "record_solution_application"
    /\ ~last.known
    /\ is_fitted
    /\ solutions # <<>>
    /\ solution_history # <<>>

\* C6: record_solution_application on a known id appends exactly one entry
\* (solution_id, error text, success, timestamp, context) at the end of the
\* history, leaves the earlier entries, and leaves the engine stale.
C6_AppendsOneEntry ==
    [][RecordedKnown =>
        /\ Len(solution_history') = Len(solution_history) + 1
        /\ SubSeq(solution_history', 1, Len(solution_history))
              = solution_history
        /\ LET entry == solution_history'[Len(solution_history')]
           IN  /\ entry.solution_id = last'.solution_id
               /\ entry.error_message = last'.error_message
               /\ entry.success = last'.success
               /\ entry.timestamp = now
               /\ entry.context
                    = (IF last'.context = None THEN "{}" ELSE last'.context)
        /\ is_fitted' = FALSE
      ]_vars

\* a second entry was appended after a different first one
C6_Witness ==
    /\ last.op = "record_solution_application"
    /\ last.known
    /\ Len(solution_history) = 2
    /\ solution_history[1] # solution_history[2]

\* C7: is_fitted = true implies the vocabulary was fitted over exactly the
\* current Solution descriptions plus all current history error texts (every
\* mutation of the Solution set or history leaves the engine stale).
C7_FreshIsFittedOnCorpus ==
    is_fitted =>
        vectorizer.fitted_on = CorpusTexts(solutions, solution_history)

\* C8: when add_solution or record_solution_application runs concurrently
\* with recommend_solutions, no interleaving leaves is_fitted = true for a
\* vocabulary that omits the text the concurrent writer added: once both
\* calls have returned, a fitted engine was fitted on the current corpus.
C8_NoLostInvalidation ==
    (ReaderAt("idle") /\ WriterAt("idle") /\ is_fitted) =>
        vectorizer.fitted_on = CorpusTexts(solutions, solution_history)

\* the step is a call of recommend_solutions or of classify_issue
ReadStep == last'.op \in {"recommend_solutions", "classify_issue"}

\* C9: recommend_solutions and classify_issue never change a Solution, the
\* Solution set or the history; on a fitted recommender recommend_solutions
\* also leaves the vectorizer and is_fitted, and classify_issue leaves the
\* classifier's models and the whole recommender.
C9_ReadersChangeNothing ==
    [][/\ ReadStep => UNCHANGED <<solutions, solution_history, classifier>>
       /\ (ReadStep /\ is_fitted) => UNCHANGED <<vectorizer, is_fitted>>
       /\ last'.op = "classify_issue" => UNCHANGED <<vectorizer, is_fitted>>
      ]_vars

\* a recommendation was returned by a recommender that was fitted when
\* called, next to a trained classifier
C9_Witness ==
    /\ last.op = "recommend_solutions"
    /\ last.was_fitted
    /\ last.result.solutions # <<>>
    /\ classifier.is_trained

\* C11: every score attached to a Solution in the ranking recommend_solutions
\* returns lies in [0, 1].
C11_ScoresInUnitInterval ==
    Returned =>
        \A i \in DOMAIN last.result.solutions :
            /\ RLeq(Zero, last.result.solutions[i].score)
            /\ RLeq(last.result.solutions[i].score, One)

\* the candidates of the last call in insertion order, each with the final
\* score it has on the day of the call
LastCandidates ==
    ScoredCandidates(vectorizer, is_fitted, last.error_message,
        SelectSeq(solutions, LAMBDA x : x.solution_id \in last.candidates),
        last.called_at)

\* a comes before b in the ranking order: a larger score, or the same score
\* and an earlier place in the candidate set
RanksBefore(a, b) ==
    \/ RLt(b.score, a.score)
    \/ /\ a.score = b.score
       /\ IndexOf(solutions, a.solution_id) < IndexOf(solutions, b.solution_id)

\* C12: the ranking recommend_solutions returns (max_recommendations >= 1) is
\* sorted by final score in non-increasing order, equal scores in insertion
\* order of the candidate set, and holds exactly the first
\* min(max_recommendations, number of candidates) entries of that order.
C12_SortedStableTruncated ==
    (Returned /\ last.candidates # {}) =>
        LET ranking == last.result.solutions
            kept == {ranking[i].solution_id : i \in DOMAIN ranking}
        IN  /\ Len(ranking) =
                  (IF last.max_recommendations < Cardinality(last.candidates)
                   THEN last.max_recommendations
                   ELSE Cardinality(last.candidates))
            /\ Range(ranking) \subseteq Range(LastCandidates)
            /\ \A i, j \in DOMAIN ranking :
                  i < j => RanksBefore(ranking[i], ranking[j])
            /\ \A c \in Range(LastCandidates) :
                  c.solution_id \notin kept =>
                      \A i \in DOMAIN ranking : RanksBefore(ranking[i], c)

\* two candidates of equal score, sol_002 inserted first, and room for one:
\* sol_002 is returned
C12_Witness ==
    /\ Returned
    /\ last.max_recommendations = 1
    /\ last.candidates = {"sol_001", "sol_002"}
    /\ solutions[1].solution_id = "sol_002"
    /\ LastCandidates[1].score = LastCandidates[2].score
    /\ Len(last.result.solutions) = 1
    /\ last.result.solutions[1].solution_id = "sol_002"

\* the step is a recommend_solutions call that returns, right after a call
\* with the same arguments that returned, days apart or not
RepeatedCall ==
    /\ last'.op = "recommend_solutions"
    /\ last.op = "recommend_solutions"
    /\ last'.repeated
    /\ ~last.raised
    /\ ~last'.raised

\* C13: recommend_solutions called twice with identical arguments and no
\* mutation in between yields the same Solutions in the same order with the
\* same scores and the same recommendation_confidence, whatever time passes
\* between the two calls.
C13_SameResultAnyTime ==
    [][RepeatedCall => last'.result = last.result]_vars

\* C13 for two calls on the same day: the results are the same, whether the
\* first call found the engine fitted or refitted it.  The recency boost is
\* taken from the days between last_applied and the day of the call, so a
\* later day can give other scores.
C13_SameResultSameDay ==
    [][(RepeatedCall /\ last'.called_at = last.called_at) =>
            last'.result = last.result]_vars

\* a repeated call returned a Solution that carries a recency boost
C13_Witness ==
    /\ Returned
    /\ last.repeated
    /\ last.called_at = now
    /\ \E s \in ReturnedSolutions :
          s.last_applied # NoTime /\ s.success_count > 0

\* the step loads the file the step before saved, into the same recommender
\* or a new one
RoundTrip ==
    /\ last.op = "save_knowledge_base"
    /\ ~last.raised
    /\ last'.op \in {"load_knowledge_base", "construct"}
    /\ last'.file = last.file

\* C14: save_knowledge_base followed by load_knowledge_base, into the same or
\* a new recommender, reproduces the same solution ids, the same
\* success_count, failure_count and confidence_score per id and a history of
\* the same length, and leaves the engine stale.
C14_RoundTrip ==
    [][RoundTrip =>
        /\ ~last'.raised
        /\ Keys(solutions') = Keys(solutions)
        /\ \A id \in Keys(solutions) :
              /\ Lookup(solutions', id).success_count
                    = Lookup(solutions, id).success_count
              /\ Lookup(solutions', id).failure_count
                    = Lookup(solutions, id).failure_count
              /\ Lookup(solutions', id).confidence_score
                    = Lookup(solutions, id).confidence_score
        /\ Len(solution_history') = Len(solution_history)
        /\ ~is_fitted'
      ]_vars

\* a new recommender was constructed from the file saved the step before:
\* two Solutions, one without a category and with a confidence the rule
\* does not give, one with a recorded outcome, and a history
C14_Witness ==
    /\ last.op = "construct"
    /\ last.after_save
    /\ ~last.raised
    /\ Len(solutions) = 2
    /\ \E i \in DOMAIN solutions :
          solutions[i].category = None /\ ~HoldsRuleValue(solutions[i])
    /\ \E i \in DOMAIN solutions : solutions[i].success_count > 0
    /\ solution_history # <<>>

\* the file is missing or malformed
Malformed(file) ==
    \/ ~file.exists
    \/ ~file.readable
    \/ ~file.has_collections
    \/ \E i \in DOMAIN file.solutions : ~file.solutions[i].valid

\* C15: neither load_knowledge_base nor the constructor with a
\* knowledge_base_path completes normally with an empty knowledge base when
\* the file at the path is missing or malformed.
C15_LoadFailureSurfaced ==
    (/\ last.op \in {"load_knowledge_base", "construct"}
     /\ Malformed(last.file)
     /\ ~last.raised) => solutions # <<>>

\* C16: recommend_solutions never raises when nothing can be recommended: on
\* an empty knowledge base it returns no Solution with
\* recommendation_confidence 0.0, on a knowledge base none of whose
\* Solutions passes the candidate filter it returns no Solution with
\* recommendation_confidence 0.1, and the result carries an explanation.
C16_NothingToRecommend ==
    (/\ last.op = "recommend_solutions"
     /\ GetCandidateSolutions(solutions, last.issue_category,
                              last.context) = <<>>)
    => /\ ~last.raised
       /\ last.result.solutions = <<>>
       /\ last.result.recommendation_confidence
            = IF solutions = <<>> THEN Zero ELSE Rat(1, 10)
       /\ last.result.explanation
            \in {"No solutions available in knowledge base",
                 "No solutions found for category"}

\* C17: a Solution in the knowledge base is never removed or replaced by
\* add_solution, record_solution_application, recommend_solutions or
\* load_knowledge_base, and its counters and confidence_score are changed
\* only by record_solution_application.
C17_SolutionsPersist ==
    [][\A id \in Keys(solutions) :
          /\ id \in Keys(solutions')
          /\ last'.op # "record_solution_application"
                => /\ Lookup(solutions', id).success_count
                        = Lookup(solutions, id).success_count
                   /\ Lookup(solutions', id).failure_count
                        = Lookup(solutions, id).failure_count
                   /\ Lookup(solutions', id).confidence_score
                        = Lookup(solutions, id).confidence_score
      ]_vars

\* the number of a category's keywords that occur in the text
MatchCount(category, text) ==
    LET p == CHOOSE p \in Range(KeywordPatterns) : p.category = category
    IN  Cardinality({k \in Range(p.keywords) : k \in KeywordsIn(Lower(text))})

TableCategories == {p.category : p \in Range(KeywordPatterns)}

\* the largest number of matches a category has in the text
BestCount(text) ==
    CHOOSE n \in 0..6 :
        /\ \E c \in TableCategories : MatchCount(c, text) = n
        /\ \A c \in TableCategories : MatchCount(c, text) <= n

\* the categories that have the largest number of matches
BestCategories(text) ==
    {c \in TableCategories : MatchCount(c, text) = BestCount(text)}

\* the classifier was untrained when it classified the text
ClassifiedUntrained ==
    last.op = "classify_issue" /\ ~last.was_trained

\* the result reports the matched keywords, the first five of them
ReportsMatched(result, text) ==
    LET matched == KeywordsIn(Lower(text))
    IN  /\ Range(result.features_used) \subseteq matched
        /\ Len(result.features_used)
             = IF Cardinality(matched) < 5 THEN Cardinality(matched) ELSE 5

\* the rule path with the most-matched category, its confidence and keywords
RuleResult(result, text) ==
    /\ result.path = "rule"
    /\ BestCount(text) > 0 => result.category \in BestCategories(text)
    /\ result.confidence = RMin(Rat(8, 10), Rat(BestCount(text), 3))
    /\ RLeq(result.confidence, Rat(8, 10))
    /\ ReportsMatched(result, text)

\* C18 as stated: while the classifier is untrained, classify_issue on any
\* non-empty text takes the rule path and returns the most-matched category
\* with confidence exactly min(0.8, matches/3) and the matched keywords.
C18_RulePathAnyText ==
    (ClassifiedUntrained /\ last.error_message # "")
        => RuleResult(last.result, last.error_message)

\* C18: while the classifier is untrained, classify_issue on a text that
\* holds at least one keyword of the table takes the rule path and returns
\* a category with the largest number of matches, with confidence exactly
\* min(0.8, matches/3), at most 0.8, and the matched keywords (the first
\* five); a text that is not blank and holds no keyword gives unknown with
\* confidence 0.1, and a blank text gives unknown with confidence 0.0.
C18_RulePathMatchedText ==
    ClassifiedUntrained =>
        IF BestCount(last.error_message) > 0
        THEN RuleResult(last.result, last.error_message)
        ELSE /\ last.result.category = "unknown"
             /\ last.result.features_used = <<>>
             /\ last.result.confidence
                  = IF Strip(last.error_message) = "" THEN Zero
                    ELSE Rat(1, 10)

\* the untrained classifier has classified a text with three matches of one
\* category, where the cap applies
C18_Witness ==
    /\ ClassifiedUntrained
    /\ BestCount(last.error_message) = 3
    /\ last.result.path = "rule"
    /\ last.result.confidence = Rat(8, 10)

\* the first member of the sequence that is in the set
FirstIn(order, S) ==
    order[CHOOSE i \in DOMAIN order :
            order[i] \in S /\ \A j \in 1..(i - 1) : order[j] \notin S]

\* the categories of the keyword table in the table's order
TableOrder == [i \in DOMAIN KeywordPatterns |-> KeywordPatterns[i].category]

\* the rule path classified a text with at least one match
ClassifiedByRule ==
    /\ ClassifiedUntrained
    /\ last.result.path = "rule"
    /\ BestCount(last.error_message) > 0

\* C19 as stated: when several categories tie for the highest match count,
\* the one declared first in the IssueCategory taxonomy wins.
C19_TieByTaxonomyOrder ==
    ClassifiedByRule =>
        last.result.category
            = FirstIn(IssueCategoryOrder, BestCategories(last.error_message))

\* C19: when several categories tie for the highest match count, the one
\* that comes first in the keyword table wins, on every run.
C19_TieByTableOrder ==
    ClassifiedByRule =>
        last.result.category
            = FirstIn(TableOrder, BestCategories(last.error_message))

\* the rule path classified a text on which two categories tie and the two
\* orders disagree
C19_Witness ==
    /\ ClassifiedByRule
    /\ Cardinality(BestCategories(last.error_message)) = 2
    /\ FirstIn(TableOrder, BestCategories(last.error_message))
         # FirstIn(IssueCategoryOrder, BestCategories(last.error_message))

\* C20: while the classifier is trained, classify_issue returns the label
\* the models give the highest fused probability, class_names being in the
\* order of the models' classes for every training label set.
C20_DecodesFusedArgmax ==
    (last.op = "classify_issue" /\ last.result.path = "ml")
        => /\ classifier.class_names = ModelClasses(classifier)
           /\ last.result.category = last.result.label

\* the trained path classified the text
ClassifiedByModels ==
    last.op = "classify_issue" /\ last.result.path = "ml"

\* the fused probability of a category of class_names
ProbaOf(result, category) ==
    LET i == CHOOSE i \in DOMAIN classifier.class_names :
                 classifier.class_names[i] = category
    IN  Rat(result.ensemble_proba[i], ProbaGrain)

\* C21: on the trained path the alternatives are the up to three categories
\* with the next-highest fused probabilities after the returned category,
\* in non-increasing order of probability, and never hold the returned
\* category, also when categories have equal fused probabilities.
C21_AlternativesAreTheNextBest ==
    ClassifiedByModels =>
        LET result == last.result
            alternatives == result.alternative_categories
            n == Len(result.ensemble_proba)
            named == {alternatives[i][1] : i \in DOMAIN alternatives}
            others == {classifier.class_names[i] : i \in 1..n}
                        \ (named \cup {result.category})
        IN  /\ result.category \notin named
            /\ Len(alternatives) = IF n - 1 < 3 THEN n - 1 ELSE 3
            /\ Cardinality(named) = Len(alternatives)
            /\ \A i \in DOMAIN alternatives :
                  /\ alternatives[i][2] = ProbaOf(result, alternatives[i][1])
                  /\ RLeq(alternatives[i][2], result.confidence)
                  /\ i > 1 => RLeq(alternatives[i][2], alternatives[i - 1][2])
                  /\ \A c \in others :
                        RLeq(ProbaOf(result, c), alternatives[i][2])

\* C22: when train_model raises, for too few examples or for an error
\* raised while the vectorizer or a model is fitted, the classifier's
\* is_trained, vectorizer, models, feature_names, class_names and
\* training_date are as before the call.
C22_FailedTrainingChangesNothing ==
    [][(last'.op = "train_model" /\ last'.raised)
            => classifier' = classifier]_vars

\* two calls of train_model in a row that both returned metrics
TrainedTwice ==
    /\ last.op = "train_model" /\ ~last.raised
    /\ last'.op = "train_model" /\ ~last'.raised

\* C23: the metrics train_model returns tell a run that fell back to the
\* plain random split from a run that split by label: the metrics of two
\* runs of which one fell back differ.
C23_FallbackShowsInMetrics ==
    [][(TrainedTwice /\ last'.fallback # last.fallback)
            => last'.results # last.results]_vars

\* C24: classify_issue never raises: a blank text gives unknown with
\* confidence 0.0, an untrained classifier uses the rule path, an exception
\* of the trained path is replaced by the rule path's result, and every
\* result carries an explanation.
C24_ClassifyNeverRaises ==
    last.op = "classify_issue" =>
        /\ ~last.raised
        /\ last.result.explanation # ""
        /\ Strip(last.error_message) = ""
              => /\ last.result.path = "empty"
                 /\ last.result.category = "unknown"
                 /\ last.result.confidence = Zero
        /\ (Strip(last.error_message) # "" /\ ~last.was_trained)
              => last.result.path = "rule"
        /\ last.ml_raised
              => last.result = RuleBasedClassify(last.error_message)

\* a trained classifier whose models raised has classified a text that
\* holds a keyword
C24_Witness ==
    /\ last.op = "classify_issue"
    /\ last.was_trained
    /\ last.ml_raised
    /\ last.result.path = "rule"
    /\ last.result.category # "unknown"

\* C25: recommend_solutions on a knowledge base that is not empty never
\* fails because of the vectorizer: when the vectorizer is not fitted at
\* scoring time every candidate gets the base score 0.5 and a ranked result
\* is returned.
C25_EngineNeverFails ==
    (last.op = "recommend_solutions" /\ solutions # <<>>)
        => /\ ~last.raised
           /\ ~is_fitted =>
                \A i \in DOMAIN last.result.solutions :
                    last.result.solutions[i].score
                        = FinalScore(Lookup(solutions,
                                         last.result.solutions[i].solution_id),
                                     Rat(1, 2), last.called_at)

\* a load_knowledge_base call raised
LoadRaised == last'.op = "load_knowledge_base" /\ last'.raised

\* C30: a load_knowledge_base call that raises leaves the Solution set, the
\* history and is_fitted as they were before the call.
C30_FailedLoadChangesNothing ==
    [][LoadRaised => UNCHANGED <<solutions, solution_history, is_fitted>>]_vars

\* recommend_solutions returned a ranking that is not empty
Ranked == Returned /\ last.result.solutions # <<>>

\* gap_bonus and availability_factor of a ranking
GapBonus(ranking) ==
    IF Len(ranking) > 1
    THEN RMin(Rat(2, 10), RSub(ranking[1].score, ranking[2].score))
    ELSE Zero

AvailabilityFactor(ranking) ==
    RMax(Rat(8, 10), RSub(One, RMul(Rat(Len(ranking), 1), Rat(5, 100))))

QuerySimilarity(solution) ==
    CosineSimilarity(vectorizer, last.error_message, solution.description)

\* the base score of the reference computation
ReferenceBase(solution) ==
    LET total == solution.success_count + solution.failure_count
    IN  IF solution.success_count >= 1
        THEN RAdd(QuerySimilarity(solution),
                  RMin(Rat(2, 10),
                       RMul(Rat(solution.success_count, total), Rat(2, 10))))
        ELSE QuerySimilarity(solution)

\* the final score of the reference computation, on the day of the call
ReferenceScore(solution) ==
    LET total == solution.success_count + solution.failure_count
        success_rate == IF total = 0 THEN Zero
                        ELSE Rat(solution.success_count, total)
        scaled == RMul(ReferenceBase(solution),
                       RAdd(Rat(1, 2),
                            RMul(Rat(1, 2), solution.confidence_score)))
        days == last.called_at - solution.last_applied[1]
        boosted ==
            IF /\ solution.last_applied # NoTime
               /\ days <= 30
               /\ solution.success_count >= 1
            THEN RAdd(scaled, RMax(Zero, RMul(Rat(1, 10), Rat(30 - days, 30))))
            ELSE scaled
        factor == IF total < 3 THEN One
                  ELSE IF RLt(success_rate, Rat(1, 2)) THEN Rat(7, 10)
                  ELSE IF RLt(success_rate, Rat(7, 10)) THEN Rat(9, 10)
                  ELSE One
    IN  RMul(boosted, factor)

\* every returned score is the reference computation's
ScoresAreReference ==
    \A i \in DOMAIN last.result.solutions :
        last.result.solutions[i].score
            = ReferenceScore(Lookup(solutions,
                                    last.result.solutions[i].solution_id))

\* the returned Solutions whose confidence_score is 0
ReturnedWithoutConfidence ==
    {solution \in Range(solutions) :
        /\ solution.confidence_score = Zero
        /\ \E i \in DOMAIN last.result.solutions :
              last.result.solutions[i].solution_id = solution.solution_id}

\* the score a Solution was returned with
ScoreOf(solution) ==
    LET i == CHOOSE i \in DOMAIN last.result.solutions :
                last.result.solutions[i].solution_id = solution.solution_id
    IN  last.result.solutions[i].score

\* C29 as stated: the final score equals the reference computation, and a
\* Solution with confidence_score 0 keeps at least half of its base score.
C29_ReferenceKeepsHalf ==
    Ranked =>
        /\ ScoresAreReference
        /\ \A solution \in ReturnedWithoutConfidence :
              RLeq(RMul(Rat(1, 2), ReferenceBase(solution)), ScoreOf(solution))

\* C29: the final score equals the reference computation: the similarity,
\* plus min(0.2, success_rate * 0.2) with one success or more; times
\* 0.5 + 0.5 * confidence_score; plus max(0, 0.1 * (30 - days) / 30) when
\* applied in the last 30 days with one success or more; times 0.7 or 0.9
\* by the success rate from three applications on.  A Solution with
\* confidence_score 0 keeps at least half of its base score while it has
\* fewer than three applications, and at least 0.35 of it in any case.
C29_ReferenceKeepsHalfUnpenalised ==
    Ranked =>
        /\ ScoresAreReference
        /\ \A solution \in ReturnedWithoutConfidence :
              /\ RLeq(RMul(Rat(35, 100), ReferenceBase(solution)),
                      ScoreOf(solution))
              /\ solution.success_count + solution.failure_count < 3
                    => RLeq(RMul(Rat(1, 2), ReferenceBase(solution)),
                            ScoreOf(solution))

\* a ranking holds a Solution with confidence_score 0 and three failures,
\* and one with a recorded success that was applied on an earlier day
C29_Witness ==
    /\ Ranked
    /\ \E solution \in ReturnedWithoutConfidence :
          /\ solution.failure_count >= 3
          /\ RLt(Zero, ReferenceBase(solution))
    /\ \E i \in DOMAIN last.result.solutions :
          LET solution == Lookup(solutions,
                                 last.result.solutions[i].solution_id)
          IN  /\ solution.success_count >= 1
              /\ solution.last_applied # NoTime
              /\ solution.last_applied[1] < last.called_at

\* the request passes the endpoint's checks of its parameters
ValidRequest ==
    /\ last.op = "get_recommendations"
    /\ Strip(last.issue_text) # ""
    /\ last.top_k >= 1 /\ last.top_k <= 50
    /\ RLeq(Zero, last.min_similarity) /\ RLeq(last.min_similarity, One)

\* the Solutions whose similarity to the text is at or above the threshold
AboveThreshold ==
    {solution \in Range(solutions) :
        RLeq(last.min_similarity,
             CosineSimilarity([has_vocabulary |-> TRUE,
                               fitted_on |-> CorpusTexts(solutions,
                                                         solution_history)],
                              last.issue_text, solution.description))}

\* C26: the recommend operation of the routing layer takes top_k and
\* min_similarity and answers with the top_k best candidates among those at
\* or above min_similarity, never with a candidate below it.
C26_ThresholdBeforeRanking ==
    ValidRequest =>
        /\ last.response.status = 200
        /\ Len(last.response.recommendations)
             = (IF Cardinality(AboveThreshold) < last.top_k
                THEN Cardinality(AboveThreshold) ELSE last.top_k)
        /\ \A i \in DOMAIN last.response.recommendations :
              last.response.recommendations[i].solution_id
                \in {solution.solution_id : solution \in AboveThreshold}

\* the path names no file, no regular file, or an empty file
InvalidPath(file) ==
    file.kind \in {"missing", "directory"} \/ file.lines = <<>>

====
